---- MODULE Spec2Model ----
(***************************************************************************)
(* Expense-flow-pro: the Travel Linkage Engine (addTravelLogs: ingest,     *)
(* hotel verification, outbound/return bridging), the Reconciliation       *)
(* Engine (the Reconciler's filteredData), the reconciliation agent of the *)
(* server with retryWithBackoff, the exchange rate cache and the filed     *)
(* reports.                                                                *)
(*                                                                         *)
(* Strings are sequences of one-character strings, so that toLowerCase,    *)
(* includes and substring are computed and not assumed.  A calendar date   *)
(* "YYYY-MM-DD" is the tuple <<y, m, d>>; the absent date is <<>>.         *)
(* A document id of the store is a positive number; 0 is an absent id.     *)
(***************************************************************************)
EXTENDS Integers, Sequences, FiniteSets, TLC

VARIABLES
  store,            \* the travel_logs collection: document id -> record
  pc,               \* position of the addTravelLogs run
  allLogs,          \* the run's snapshot of the collection (freshLogsSnap)
  initialResults,   \* ids inserted by the run (its return value)
  expenses,         \* App's expenses memo: the expense pool, newest first
  reconciliation,   \* App's reconciliation state: the advisory result
  exchangeData,     \* the Reconciler's exchangeData state: the rate table
  period,           \* the Reconciler's period prop: [month, year]
  auditBank,        \* the Reconciler's auditBank prop
  audits,           \* audits initiated so far
  filteredData,     \* the Reconciler's filteredData memo
  agentPc,          \* position of the runReconciliationAgent call
  agentAnchors,     \* the ids of the request's expenses of role ANCHOR
  agentI,           \* the loop variable i of the agent
  attempt,          \* the loop variable i of retryWithBackoff
  delays,           \* the waits of the retryWithBackoff call so far, in milliseconds
  caught,           \* what the latest call of the request ended with
  allMatches,       \* the agent's allMatches
  unmatchedBankIds, \* the agent's unmatchedBankIds
  batchLog,         \* what the agent logged for each batch it went through
  agentResult,      \* the value the agent returned
  rateCache,        \* localStorage[CACHE_KEY]: the cached rate table and its timestamp
  clock,            \* Date.now(), in hours
  lastRates,        \* what the last getExchangeRates call did and returned
  cloudReports,     \* the cloud collection 'reports', in the order of the writes
  localReports,     \* localStorage['expenseflow_local_reports'], newest first
  sdk,              \* whether getSDK() returns the storage SDK
  saves,            \* saveReconciliation calls completed so far
  history           \* what the last getReconciliations call returned

travelVars == <<store, pc, allLogs, initialResults>>

reconVars ==
  <<expenses, reconciliation, exchangeData, period, auditBank, audits, filteredData>>

agentVars ==
  <<agentPc, agentAnchors, agentI, attempt, delays, caught, allMatches, unmatchedBankIds,
    batchLog, agentResult>>

cacheVars == <<rateCache, clock, lastRates>>

reportVars == <<cloudReports, localReports, sdk, saves, history>>

vars == <<travelVars, reconVars, agentVars, cacheVars, reportVars>>

----------------------------------------------------------------------------
(* Bounds *)

MaxLogs == 3        \* documents the travel_logs collection can hold
MaxBatch == 2       \* records in one addTravelLogs call
MaxStays == 4       \* documents of the collection in the hotel verification runs
MaxExpenses == 3    \* expenses of the pool
MaxProposals == 2   \* pairs the advisory matcher proposes in one audit
MaxAudits == 1      \* audits initiated in one session
MaxAnchors == 31    \* anchors of one request to the reconciliation agent
MaxBatchMatches == 2 \* matches the model answers for one batch
MaxCount == 8       \* anchors of one class counted by the score

----------------------------------------------------------------------------
(* Strings *)

UpperCaseLetters ==
  <<"A","B","C","D","E","F","G","H","I","J","K","L","M","N","O","P","Q","R","S","T","U","V","W","X","Y","Z">>
LowerCaseLetters ==
  <<"a","b","c","d","e","f","g","h","i","j","k","l","m","n","o","p","q","r","s","t","u","v","w","x","y","z">>

Range26(letters) == { letters[i] : i \in 1..26 }

OtherCharacters == {" ", "&", "-", "_", "0", "1", "2", "3", "4", "5", "6", "7", "8", "9"}

Characters == Range26(UpperCaseLetters) \cup Range26(LowerCaseLetters) \cup OtherCharacters

LowerOf ==
  [c \in Characters |->
     IF \E i \in 1..26 : UpperCaseLetters[i] = c
     THEN LowerCaseLetters[CHOOSE i \in 1..26 : UpperCaseLetters[i] = c]
     ELSE c]

UpperOf ==
  [c \in Characters |->
     IF \E i \in 1..26 : LowerCaseLetters[i] = c
     THEN UpperCaseLetters[CHOOSE i \in 1..26 : LowerCaseLetters[i] = c]
     ELSE c]

toLowerCase(s) == [i \in 1..Len(s) |-> LowerOf[s[i]]]

toUpperCase(s) == [i \in 1..Len(s) |-> UpperOf[s[i]]]

\* String.prototype.includes
includes(s, sub) ==
  \E i \in 0..(Len(s) - Len(sub)) : SubSeq(s, i + 1, i + Len(sub)) = sub

\* String.prototype.substring(0, n)
substring0(s, n) == SubSeq(s, 1, IF Len(s) < n THEN Len(s) ELSE n)

----------------------------------------------------------------------------
(* Dates: new Date("YYYY-MM-DD").getTime() / (1000 * 60 * 60 * 24) *)

NoDate == <<>>

IsLeapYear(y) == (y % 4 = 0 /\ y % 100 # 0) \/ y % 400 = 0

MonthLengths(y) ==
  <<31, IF IsLeapYear(y) THEN 29 ELSE 28, 31, 30, 31, 30, 31, 31, 30, 31, 30, 31>>

RECURSIVE DaysBeforeMonth(_, _)
DaysBeforeMonth(y, m) ==
  IF m <= 1 THEN 0 ELSE DaysBeforeMonth(y, m - 1) + MonthLengths(y)[m - 1]

LeapYearsThrough(y) == (y \div 4) - (y \div 100) + (y \div 400)

\* whole days since 1970-01-01 (dates are parsed as UTC midnight)
DayNumber(date) ==
  365 * (date[1] - 1970)
    + (LeapYearsThrough(date[1] - 1) - LeapYearsThrough(1969))
    + DaysBeforeMonth(date[1], date[2])
    + (date[3] - 1)

Abs(x) == IF x < 0 THEN 0 - x ELSE x

\* the mutant of calculateDuration: the day count is not inclusive
calculateDurationExclusive(start, end) ==
  Abs(DayNumber(IF end = NoDate THEN start ELSE end) - DayNumber(start))

calculateDuration(start, end) ==
  Abs(DayNumber(IF end = NoDate THEN start ELSE end) - DayNumber(start)) + 1

----------------------------------------------------------------------------
(* Home location *)

HomePatterns ==
  { <<"u","a","e">>,
    <<"e","m","i","r","a","t","e","s">>,
    <<"d","u","b","a","i">>,
    <<"u","n","i","t","e","d"," ","a","r","a","b"," ","e","m","i","r","a","t","e","s">> }

isHomeLocation(log) ==
  LET dest == toLowerCase(log.destination_country \o <<" ">> \o log.destination_city)
  IN  \E p \in HomePatterns : includes(dest, p)

----------------------------------------------------------------------------
(* Candidate travel logs, as the extraction client builds them *)

Dubai == <<"D","u","b","a","i">>
Muscat == <<"M","u","s","c","a","t">>
UAE == <<"U","A","E">>
Oman == <<"O","m","a","n">>

Places == { [city |-> Dubai, country |-> UAE], [city |-> Muscat, country |-> Oman] }

Jan05 == <<2025, 1, 5>>
Jan09 == <<2025, 1, 9>>
Feb01 == <<2025, 2, 1>>
Feb02 == <<2025, 2, 2>>

\* what the extraction service returns for one travel record: one-way flights
\* on four dates, a flight with an end date, hotel stays with and without one
RawFlights ==
  [type : {"flight"}, place : Places, date : {Jan05, Jan09, Feb01, Feb02}, end_date : {NoDate}]
    \cup [type : {"flight"}, place : Places, date : {Feb01}, end_date : {Feb02}]

RawHotels ==
  [type : {"accommodation"}, place : {[city |-> Muscat, country |-> Oman]},
   date : {Feb01, Feb02}, end_date : {NoDate}]
    \cup [type : {"accommodation"}, place : Places, date : {Feb02}, end_date : {NoDate}]
    \cup [type : {"accommodation"}, place : {[city |-> Muscat, country |-> Oman]},
          date : {Jan09}, end_date : {Feb01}]

RawLogs == RawFlights \cup RawHotels

candidateTravelLog(log, docId) ==
  [ destination_city |-> log.place.city,
    destination_country |-> log.place.country,
    start_date |-> log.date,
    end_date |-> IF log.end_date # NoDate THEN log.end_date ELSE log.date,
    return_date |-> log.end_date,
    travel_type |-> log.type,
    reference_number |-> <<>>,
    status |-> "Complete",
    days_spent |-> 0,
    document_id |-> docId ]

----------------------------------------------------------------------------
(* Sequences *)

Range(f) == { f[x] : x \in DOMAIN f }

\* F(v), with v computed once: const v = ...; the value is then used by F
const(v, F(_)) == CHOOSE r \in { F(x) : x \in {v} } : TRUE

SetMin(S) == CHOOSE x \in S : \A y \in S : x <= y
SetMax(S) == CHOOSE x \in S : \A y \in S : x >= y

\* Array.prototype.filter
filter(s, Keep(_)) == SelectSeq(s, Keep)

\* insertion of x behind every element that does not start later (stable)
InsertByStart(x, s) ==
  LET after == { i \in 1..Len(s) : DayNumber(s[i].start_date) > DayNumber(x.start_date) }
      k == IF after = {} THEN Len(s) + 1 ELSE SetMin(after)
  IN  SubSeq(s, 1, k - 1) \o <<x>> \o SubSeq(s, k, Len(s))

\* [...].sort((a, b) => new Date(a.start_date) - new Date(b.start_date)), a stable sort
RECURSIVE sortByStart(_)
sortByStart(s) ==
  IF s = <<>> THEN <<>>
  ELSE InsertByStart(s[Len(s)], sortByStart(SubSeq(s, 1, Len(s) - 1)))

\* the documents of a collection in the order a read returns them (by document id)
RECURSIVE docsOf(_)
docsOf(st) ==
  IF DOMAIN st = {} THEN <<>>
  ELSE LET i == SetMin(DOMAIN st)
       IN  <<st[i]>> \o docsOf([j \in DOMAIN st \ {i} |-> st[j]])

\* setDoc(ref, patch, { merge: true })
mergeDoc(rec, patch) ==
  [f \in DOMAIN rec |-> IF f \in DOMAIN patch THEN patch[f] ELSE rec[f]]

RECURSIVE applyWrites(_, _)
applyWrites(st, writes) ==
  IF writes = <<>> THEN st
  ELSE applyWrites([st EXCEPT ![Head(writes).id] = mergeDoc(@, Head(writes).patch)],
                   Tail(writes))

----------------------------------------------------------------------------
(* addTravelLogs, step 1: deduplication and insertion *)

isDuplicate(log, existingLogs) ==
  \E i \in 1..Len(existingLogs) :
    LET existing == existingLogs[i] IN
      \/ /\ log.reference_number # <<>>
         /\ existing.reference_number # <<>>
         /\ toUpperCase(log.reference_number) = toUpperCase(existing.reference_number)
      \/ /\ log.start_date = existing.start_date
         /\ toLowerCase(log.destination_city) = toLowerCase(existing.destination_city)
         /\ log.travel_type = existing.travel_type

isRoundTrip(log) ==
  /\ log.travel_type # "accommodation"
  /\ ~isHomeLocation(log)
  /\ log.return_date # NoDate

\* the mutant of closedOnIngest: only a home leg is closed
closedOnIngestHomeOnly(log) == isHomeLocation(log)

closedOnIngest(log) ==
  isHomeLocation(log) \/ isRoundTrip(log) \/ log.travel_type = "accommodation"

newLog(log, id) ==
  [ id |-> id,
    destination_city |-> log.destination_city,
    destination_country |-> log.destination_country,
    start_date |-> log.start_date,
    end_date |-> log.end_date,
    return_date |-> log.return_date,
    travel_type |-> log.travel_type,
    reference_number |-> log.reference_number,
    document_id |-> log.document_id,
    days_spent |-> IF closedOnIngest(log)
                   THEN calculateDuration(log.start_date, log.end_date) ELSE 1,
    status |-> IF closedOnIngest(log) THEN "Complete" ELSE "Open - Awaiting return",
    hotel_verification_status |->
      IF log.travel_type # "accommodation" /\ ~isHomeLocation(log)
      THEN "missing" ELSE "not_required",
    linked_hotel_id |-> 0,
    linked_flight_id |-> 0,
    outbound_flight_id |-> 0,
    return_flight_id |-> 0 ]

\* addDoc: the id of the next document; a read returns the documents in id
\* order, and ids are taken to grow with insertion
newId(st) == Cardinality(DOMAIN st) + 1

\* insertion of the accepted records one after the other
RECURSIVE addDocs(_, _)
addDocs(st, accepted) ==
  IF accepted = <<>> THEN st
  ELSE addDocs([i \in DOMAIN st \cup {newId(st)} |->
                  IF i \in DOMAIN st THEN st[i] ELSE newLog(Head(accepted), i)],
               Tail(accepted))

\* capacity is the number of documents the collection is let to grow to
Ingest(logs, capacity) ==
  /\ pc = "idle"
  /\ LET sortedLogs == sortByStart(logs)
         existingLogs == docsOf(store)
         accepted == filter(sortedLogs, LAMBDA log : ~isDuplicate(log, existingLogs))
     IN  /\ Cardinality(DOMAIN store) + Len(accepted) <= capacity
         /\ store' = addDocs(store, accepted)
         /\ initialResults' = [k \in 1..Len(accepted) |-> newId(store) + k - 1]
         /\ allLogs' = docsOf(store')
  /\ pc' = "ingested"
  /\ UNCHANGED <<reconVars, agentVars, cacheVars, reportVars>>

\* the document id the extraction client stamps on the records of one call
\* (doc-<time>-<index>): a number no earlier call has used
DocStamp == 100
docIdOf(st) == DocStamp + newId(st)

\* the calls of addTravelLogs for the raw logs of a set
Batches(raws, docId) ==
  UNION { [1..n -> { candidateTravelLog(r, docId) : r \in raws }] : n \in 0..MaxBatch }

----------------------------------------------------------------------------
(* addTravelLogs, step 2: Verify Hotels *)

\* the value a flight's linked_hotel_id takes for a hotel: match.document_id || match.id
hotelKey(hotel) == IF hotel.document_id # 0 THEN hotel.document_id ELSE hotel.id

\* the mutant of verifySkips: a verified flight is verified again
verifySkipsHomeOnly(flight) == isHomeLocation(flight)

\* the mutant of verifySkips: a home flight is looked at as well
verifySkipsVerifiedOnly(flight) == flight.hotel_verification_status = "verified"

verifySkips(flight) ==
  flight.hotel_verification_status = "verified" \/ isHomeLocation(flight)

\* the mutant of hotelMatches: the hotel has to start on the day of the flight
hotelMatchesSameDay(flight, hotel) ==
  LET flightCity == toLowerCase(flight.destination_city)
      hotelCity == toLowerCase(hotel.destination_city)
      cityMatch == includes(flightCity, hotelCity) \/ includes(hotelCity, flightCity)
      diffDays == DayNumber(hotel.start_date) - DayNumber(flight.start_date)
  IN  /\ cityMatch
      /\ diffDays = 0
      /\ (hotel.linked_flight_id = 0 \/ hotel.linked_flight_id = flight.id)

hotelMatches(flight, hotel) ==
  LET flightCity == toLowerCase(flight.destination_city)
      hotelCity == toLowerCase(hotel.destination_city)
      cityMatch == includes(flightCity, hotelCity) \/ includes(hotelCity, flightCity)
      diffDays == DayNumber(hotel.start_date) - DayNumber(flight.start_date)
      dateMatch == diffDays >= -1 /\ diffDays <= 2
  IN  /\ cityMatch
      /\ dateMatch
      /\ (hotel.linked_flight_id = 0 \/ hotel.linked_flight_id = flight.id)

\* the two setDoc calls of a verified flight, in the order they are awaited
verifyWritesOf(flight, match) ==
  << [id |-> flight.id,
      patch |-> [hotel_verification_status |-> "verified",
                 linked_hotel_id |-> hotelKey(match)]],
     [id |-> match.id,
      patch |-> [status |-> "Complete",
                 linked_flight_id |-> flight.id,
                 hotel_verification_status |-> "verified"]] >>

\* all the writes of the Verify Hotels loop over the snapshot, in order
RECURSIVE verifyWrites(_, _)
verifyWrites(flights, hotels) ==
  IF flights = <<>> THEN <<>>
  ELSE LET flight == Head(flights)
           found == { i \in 1..Len(hotels) : hotelMatches(flight, hotels[i]) }
       IN  (IF verifySkips(flight) \/ found = {}
            THEN <<>>
            ELSE verifyWritesOf(flight, hotels[SetMin(found)]))
           \o verifyWrites(Tail(flights), hotels)

verifyHotelsWrites(logs) ==
  verifyWrites(filter(logs, LAMBDA l : l.travel_type = "flight"),
               filter(logs, LAMBDA l : l.travel_type = "accommodation"))

VerifyHotels ==
  /\ pc = "ingested"
  /\ store' = applyWrites(store, verifyHotelsWrites(allLogs))
  /\ pc' = "verified"
  /\ UNCHANGED <<allLogs, initialResults>>
  /\ UNCHANGED <<reconVars, agentVars, cacheVars, reportVars>>

----------------------------------------------------------------------------
(* addTravelLogs, step 3: Bridge Flights *)

bridgeDays(outbound, arrival) ==
  LET d == (DayNumber(arrival.start_date) - DayNumber(outbound.start_date)) + 1
  IN  IF d < 1 THEN 1 ELSE d

\* the mutant of outboundFor: an outbound that is already bridged is taken again
outboundForAnyOpen(arrival, openOutbounds) ==
  LET ok == { i \in 1..Len(openOutbounds) :
                DayNumber(openOutbounds[i].start_date) <= DayNumber(arrival.start_date) }
  IN  IF ok = {} THEN 0 ELSE SetMax(ok)

\* the mutant of outboundFor: the earliest outbound that fits is taken
outboundForEarliest(arrival, openOutbounds) ==
  LET ok == { i \in 1..Len(openOutbounds) :
                /\ DayNumber(openOutbounds[i].start_date) <= DayNumber(arrival.start_date)
                /\ openOutbounds[i].return_flight_id = 0 }
  IN  IF ok = {} THEN 0 ELSE SetMin(ok)

\* [...openOutbounds].reverse().find(...): the index of the outbound found, or 0
outboundFor(arrival, openOutbounds) ==
  LET ok == { i \in 1..Len(openOutbounds) :
                /\ DayNumber(openOutbounds[i].start_date) <= DayNumber(arrival.start_date)
                /\ openOutbounds[i].return_flight_id = 0 }
  IN  IF ok = {} THEN 0 ELSE SetMax(ok)

\* the two setDoc calls of a bridged pair, in the order they are awaited
bridgeWritesOf(outbound, arrival) ==
  << [id |-> outbound.id,
      patch |-> [status |-> "Complete",
                 return_date |-> arrival.start_date,
                 return_flight_id |-> arrival.id,
                 days_spent |-> bridgeDays(outbound, arrival)]],
     [id |-> arrival.id,
      patch |-> [outbound_flight_id |-> outbound.id]] >>

\* all the writes of the bridging loop, in order; the two lists are the
\* in-memory records of the snapshot, updated as the loop goes
RECURSIVE bridgeWrites(_, _)
bridgeWrites(arrivals, openOutbounds) ==
  IF arrivals = <<>> THEN <<>>
  ELSE LET arrival == Head(arrivals)
           k == outboundFor(arrival, openOutbounds)
       IN  IF arrival.outbound_flight_id # 0 \/ k = 0
           THEN bridgeWrites(Tail(arrivals), openOutbounds)
           ELSE bridgeWritesOf(openOutbounds[k], arrival)
                \o bridgeWrites(Tail(arrivals),
                                [openOutbounds EXCEPT ![k].return_flight_id = arrival.id])

bridgeFlightsWrites(logs) ==
  bridgeWrites(
    sortByStart(filter(logs, LAMBDA l : l.travel_type = "flight" /\ isHomeLocation(l))),
    sortByStart(filter(logs, LAMBDA l : l.status = "Open - Awaiting return" /\ ~isHomeLocation(l))))

BridgeReturns ==
  /\ pc = "verified"
  /\ store' = applyWrites(store, bridgeFlightsWrites(allLogs))
  /\ pc' = "idle"
  /\ allLogs' = <<>>
  /\ initialResults' = <<>>
  /\ UNCHANGED <<reconVars, agentVars, cacheVars, reportVars>>

----------------------------------------------------------------------------
(* A rejected write: the storage SDK's setDoc throws, the run ends there *)

VerifyHotelsFails ==
  /\ pc = "ingested"
  /\ \E n \in 0..(Len(verifyHotelsWrites(allLogs)) - 1) :
       store' = applyWrites(store, SubSeq(verifyHotelsWrites(allLogs), 1, n))
  /\ pc' = "idle"
  /\ allLogs' = <<>>
  /\ initialResults' = <<>>
  /\ UNCHANGED <<reconVars, agentVars, cacheVars, reportVars>>

BridgeReturnsFails ==
  /\ pc = "verified"
  /\ \E n \in 0..(Len(bridgeFlightsWrites(allLogs)) - 1) :
       store' = applyWrites(store, SubSeq(bridgeFlightsWrites(allLogs), 1, n))
  /\ pc' = "idle"
  /\ allLogs' = <<>>
  /\ initialResults' = <<>>
  /\ UNCHANGED <<reconVars, agentVars, cacheVars, reportVars>>

----------------------------------------------------------------------------
(* The expense pool.  An amount is a whole number of hundredths of its     *)
(* currency; a rate of the table is a whole number of RateScale-ths, so    *)
(* that a rate of 1 is RateScale.                                          *)

RateScale == 10000

INR == <<"I","N","R">>
AED == <<"A","E","D">>
bank_statement == <<"b","a","n","k","_","s","t","a","t","e","m","e","n","t">>
credit_card_statement ==
  <<"c","r","e","d","i","t","_","c","a","r","d","_","s","t","a","t","e","m","e","n","t">>
receipt == <<"r","e","c","e","i","p","t">>
email == <<"e","m","a","i","l">>

Utilities == <<"U","t","i","l","i","t","i","e","s">>
Lodging == <<"L","o","d","g","i","n","g">>
Transport == <<"T","r","a","n","s","p","o","r","t">>
General == <<"G","e","n","e","r","a","l">>

NoBank == ""
AllAccounts == "All Accounts"
AllMonths == "All Months"

\* statement lines and proof documents as the extraction client builds them
ExpenseUniverse ==
  { [id |-> 1, merchant |-> <<"E","t","i","s","a","l","a","t">>, amount |-> 1000,
     currency |-> AED, date |-> <<2025, 10, 5>>, category |-> Utilities,
     source |-> bank_statement, bank |-> "Amex"],
    [id |-> 2, merchant |-> <<"I","b","i","s"," ","H","o","t","e","l">>, amount |-> 50000,
     currency |-> AED, date |-> <<2025, 10, 10>>, category |-> Lodging,
     source |-> credit_card_statement, bank |-> "Amex"],
    [id |-> 3, merchant |-> <<"C","a","r","e","e","m">>, amount |-> 800,
     currency |-> AED, date |-> <<2025, 11, 2>>, category |-> Transport,
     source |-> bank_statement, bank |-> "HSBC"],
    [id |-> 4, merchant |-> <<"e","&"," ","t","e","l","e","c","o","m">>, amount |-> 1005,
     currency |-> AED, date |-> <<2025, 10, 7>>, category |-> Utilities,
     source |-> receipt, bank |-> NoBank],
    [id |-> 5, merchant |-> <<"e","t","i","s","a","l","a","t"," ","b","i","l","l">>,
     amount |-> 21600,
     currency |-> INR, date |-> <<2025, 10, 25>>, category |-> Utilities,
     source |-> email, bank |-> NoBank],
    [id |-> 6, merchant |-> <<"i","b","i","s"," ","d","u","b","a","i">>, amount |-> 50000,
     currency |-> AED, date |-> <<2025, 10, 22>>, category |-> General,
     source |-> receipt, bank |-> NoBank],
    [id |-> 7, merchant |-> <<"E","t","i","s","a","l","a","t"," ","D","X","B">>,
     amount |-> 1000,
     currency |-> AED, date |-> <<2025, 10, 8>>, category |-> Utilities,
     source |-> receipt, bank |-> NoBank],
    [id |-> 8, merchant |-> <<"e","t","i","s","a","l","a","t"," ","a","p","p">>,
     amount |-> 21600,
     currency |-> INR, date |-> <<2025, 10, 6>>, category |-> Utilities,
     source |-> email, bank |-> NoBank] }

\* a second charge of the merchant and amount of statement line 1
RepeatedCharges ==
  { [id |-> 11, merchant |-> <<"E","t","i","s","a","l","a","t">>, amount |-> 1000,
     currency |-> AED, date |-> <<2025, 10, 9>>, category |-> Utilities,
     source |-> bank_statement, bank |-> "Amex"] }

\* a date string whose day is no number, as in "2025-10-xx"
BadDate == <<2025, 10>>

\* a field the extraction left out
Undefined == <<"undefined">>

\* proof documents the extraction client built wrongly
MalformedUniverse ==
  { [id |-> 9, merchant |-> <<"E","t","i","s","a","l","a","t"," ","w","e","b">>,
     amount |-> 1000,
     currency |-> AED, date |-> BadDate, category |-> Utilities,
     source |-> receipt, bank |-> NoBank],
    [id |-> 10, merchant |-> Undefined, amount |-> 1000,
     currency |-> AED, date |-> <<2025, 10, 5>>, category |-> Utilities,
     source |-> receipt, bank |-> NoBank] }

\* an id the advisory matcher may name that no expense of the pool has
UnknownId == 99

\* the rate table of the exchange rate service: 1 INR = 0.044 AED; no table is {}
NoRates == {}
RateTable == { [currency |-> AED, rate |-> 440] }

\* combined.sort((a, b) => new Date(b.date) - new Date(a.date)): stable, newest first
InsertByDateDesc(x, s) ==
  LET before == { i \in 1..Len(s) : DayNumber(s[i].date) >= DayNumber(x.date) }
      k == IF before = {} THEN 0 ELSE SetMax(before)
  IN  SubSeq(s, 1, k) \o <<x>> \o SubSeq(s, k + 1, Len(s))

RECURSIVE sortByDateDesc(_)
sortByDateDesc(s) ==
  IF s = <<>> THEN <<>>
  ELSE InsertByDateDesc(s[Len(s)], sortByDateDesc(SubSeq(s, 1, Len(s) - 1)))

\* the orders a sort with a comparator that is no ordering can leave a list in
Orders(s) ==
  { t \in [1..Len(s) -> Range(s)] : \A k \in 1..Len(s) : \E j \in 1..Len(s) : t[j] = s[k] }

\* combined.sort(...) of a pool: with a date that is no date the comparator
\* returns NaN and is no ordering
sortedPools(s) ==
  IF \A k \in 1..Len(s) : Len(s[k].date) = 3 THEN { sortByDateDesc(s) } ELSE Orders(s)

----------------------------------------------------------------------------
(* The currency service *)

\* rates[currency], 0 when the table has no entry
rateOf(rates, currency) ==
  LET hit == { r \in rates : r.currency = currency }
  IN  IF hit = {} THEN 0 ELSE (CHOOSE r \in hit : TRUE).rate

\* amount / rate, kept as the fraction amount / (den / RateScale)
convertToINR(amount, fromCurrency, rates) ==
  LET currency == toUpperCase(fromCurrency)
      rate == rateOf(rates, currency)
  IN  IF currency = INR THEN [num |-> amount, den |-> RateScale]
      ELSE IF rate = 0 THEN [num |-> amount, den |-> RateScale]
      ELSE [num |-> amount, den |-> rate]

----------------------------------------------------------------------------
(* The Reconciler: the predicates of filteredData *)

monthsList ==
  << "January", "February", "March", "April", "May", "June", "July", "August",
     "September", "October", "November", "December" >>

isTargetPeriod(dateStr, per) ==
  /\ dateStr # NoDate
  /\ dateStr[1] = per.year
  /\ (per.month = AllMonths
        \/ (dateStr[2] \in 1..12 /\ monthsList[dateStr[2]] = per.month))

RECURSIVE trim(_)
trim(s) ==
  IF s = <<>> THEN s
  ELSE IF Head(s) = " " THEN trim(Tail(s))
  ELSE IF s[Len(s)] = " " THEN trim(SubSeq(s, 1, Len(s) - 1))
  ELSE s

isAnchor(e) ==
  LET src == trim(toLowerCase(e.source))
  IN  src = bank_statement \/ src = credit_card_statement

inAccount(e, bankSel) == bankSel = AllAccounts \/ e.bank = bankSel

allAnchorsInPeriod(exps, per, bankSel) ==
  filter(exps, LAMBDA e : isAnchor(e) /\ isTargetPeriod(e.date, per) /\ inAccount(e, bankSel))

totalVaultAnchors(exps, bankSel) ==
  filter(exps, LAMBDA e : isAnchor(e) /\ inAccount(e, bankSel))

\* expenseMap: id -> the last expense of the pool with that id
expenseMap(exps) ==
  [i \in { exps[k].id : k \in 1..Len(exps) } \ {0} |->
     exps[SetMax({ k \in 1..Len(exps) : exps[k].id = i })]]

\* new Date(date).getTime() is a number: the date has its three parts
validDate(date) == Len(date) = 3

diffDays(bank, rec) == Abs(DayNumber(bank.date) - DayNumber(rec.date))

\* diffDays > maxDays: false when a date is no date, for diffDays is NaN then
exceedsDays(bank, rec, maxDays) ==
  /\ validDate(bank.date)
  /\ validDate(rec.date)
  /\ diffDays(bank, rec) > maxDays

\* diffDays <= maxDays: false when diffDays is NaN
withinDays(bank, rec, maxDays) ==
  /\ validDate(bank.date)
  /\ validDate(rec.date)
  /\ diffDays(bank, rec) <= maxDays

\* |bINR - rINR| < bINR * 0.05, both sides over the denominator the two
\* converted amounts share; |bank.amount - receipt.amount| < 0.10 otherwise
sameAmt(bank, rec, rates) ==
  LET bINR == convertToINR(bank.amount, bank.currency, rates)
      rINR == convertToINR(rec.amount, rec.currency, rates)
      sameCurrency == bank.currency = rec.currency
      gap == Abs(bINR.num * rINR.den - rINR.num * bINR.den)
      whole == bINR.num * rINR.den
  IN  IF sameCurrency THEN Abs(bank.amount - rec.amount) < 10
      ELSE whole > 0 /\ gap <= (whole - 1) \div 20

isTele(m) ==
  includes(m, <<"e","&">>) \/ includes(m, <<"e","t","i","s","a","l","a","t">>)

isRTA(m) ==
  \/ includes(m, <<"r","t","a">>)
  \/ includes(m, <<"r","o","a","d"," ","&"," ","t","r","a","n","s","p","o","r","t">>)
  \/ includes(m, <<"d","u","b","a","i"," ","m","e","t","r","o">>)
  \/ includes(m, <<"h","a","l","a"," ","t","a","x","i">>)

mercMatch(bank, rec) ==
  LET bMerc == toLowerCase(bank.merchant)
      rMerc == toLowerCase(rec.merchant)
  IN  \/ (isTele(bMerc) /\ isTele(rMerc))
      \/ (isRTA(bMerc) /\ isRTA(rMerc))
      \/ includes(rMerc, substring0(bMerc, 4))
      \/ includes(bMerc, substring0(rMerc, 4))

isHotelPair(bank, rec) ==
  \/ includes(toLowerCase(bank.category), <<"l","o","d","g","i","n","g">>)
  \/ includes(toLowerCase(bank.category), <<"h","o","t","e","l">>)
  \/ includes(toLowerCase(rec.category), <<"l","o","d","g","i","n","g">>)
  \/ includes(toLowerCase(rec.category), <<"h","o","t","e","l">>)

----------------------------------------------------------------------------
(* The Reconciler: 1. the advisory pairs, validated *)

\* the mutant of advisoryMaxDays: a window of thirty days for every pair
advisoryMaxDaysWide(bank, rec) == 30

advisoryMaxDays(bank, rec) == IF isHotelPair(bank, rec) THEN 14 ELSE 7

\* the pair of one proposal m, <<>> when the proposal is dropped (null)
validatedPair(m, byId, rates) ==
  IF m.bankId = 0 \/ m.bankId \notin DOMAIN byId THEN <<>>
  ELSE IF m.receiptId = 0 \/ m.receiptId \notin DOMAIN byId THEN <<>>
  ELSE LET bank == byId[m.bankId]
           rec == byId[m.receiptId]
       IN  IF bank.id = rec.id \/ isAnchor(rec) THEN <<>>
           ELSE IF \/ exceedsDays(bank, rec, advisoryMaxDays(bank, rec))
                   \/ ~sameAmt(bank, rec, rates)
                   \/ ~mercMatch(bank, rec)
                THEN <<>>
                ELSE << [bank |-> bank, receipt |-> rec,
                         label |-> m.proofLabel, summary |-> m.summary] >>

RECURSIVE validatedPairs(_, _, _)
validatedPairs(proposals, byId, rates) ==
  IF proposals = <<>> THEN <<>>
  ELSE validatedPair(Head(proposals), byId, rates)
         \o validatedPairs(Tail(proposals), byId, rates)

\* matchedPairs after the advisory pass
advisoryPairs(exps, recon, rates, per, bankSel) ==
  const(expenseMap(exps), LAMBDA byId :
    filter(validatedPairs(recon.matched, byId, rates),
           LAMBDA pair : isTargetPeriod(pair.bank.date, per) /\ inAccount(pair.bank, bankSel)))

----------------------------------------------------------------------------
(* The Reconciler: 2. the heuristic fallback matcher *)

AutoLabel == "AUTO-VERIFIED (Forensic Match)"
AutoSummary == "Verified via 3 day clearance window heuristic match."

bankIdsOf(pairs) == { pairs[k].bank.id : k \in 1..Len(pairs) } \ {0}

unmatchedAnchors(exps, pairs, per, bankSel) ==
  const(bankIdsOf(pairs), LAMBDA matchedBankIds :
    filter(allAnchorsInPeriod(exps, per, bankSel), LAMBDA b : b.id \notin matchedBankIds))

availableReceipts(exps, pairs) ==
  const({ pairs[k].receipt.id : k \in 1..Len(pairs) }, LAMBDA taken :
    filter(exps, LAMBDA e : ~isAnchor(e) /\ e.id \notin taken))

fallbackMaxDays(bankTx, rec) == IF isHotelPair(bankTx, rec) THEN 14 ELSE 3

\* the predicate of availableReceipts.find for one anchor
autoMatches(bankTx, rec, rates) ==
  /\ sameAmt(bankTx, rec, rates)
  /\ withinDays(bankTx, rec, fallbackMaxDays(bankTx, rec))
  /\ mercMatch(bankTx, rec)
  /\ ~isAnchor(rec)

\* the pairs the forEach over unmatchedAnchors pushes; a receipt taken is
\* spliced out of the available ones
\* the mutant of autoMatch: the last receipt that matches is taken
autoMatchLast(bankTx, available, rates) ==
  LET found == { k \in 1..Len(available) : autoMatches(bankTx, available[k], rates) }
  IN  IF found = {} THEN 0 ELSE SetMax(found)

\* availableReceipts.find(...): the index of the receipt found, 0 when none is
autoMatch(bankTx, available, rates) ==
  LET found == { k \in 1..Len(available) : autoMatches(bankTx, available[k], rates) }
  IN  IF found = {} THEN 0 ELSE SetMin(found)

RECURSIVE fallbackPairs(_, _, _)
fallbackPairs(anchors, available, rates) ==
  IF anchors = <<>> THEN <<>>
  ELSE LET bankTx == Head(anchors)
           k == CHOOSE i \in {autoMatch(bankTx, available, rates)} : TRUE
       IN  IF k = 0 THEN fallbackPairs(Tail(anchors), available, rates)
           ELSE     << [bank |-> bankTx, receipt |-> available[k],
                        label |-> AutoLabel, summary |-> AutoSummary] >>
                    \o fallbackPairs(Tail(anchors),
                                     SubSeq(available, 1, k - 1)
                                       \o SubSeq(available, k + 1, Len(available)),
                                     rates)

\* matchedPairs after both passes
matchedPairs(exps, recon, rates, per, bankSel) ==
  const(advisoryPairs(exps, recon, rates, per, bankSel), LAMBDA advisory :
    const(unmatchedAnchors(exps, advisory, per, bankSel), LAMBDA anchors :
      const(availableReceipts(exps, advisory), LAMBDA available :
        advisory \o fallbackPairs(anchors, available, rates))))

----------------------------------------------------------------------------
(* The Reconciler: 3. classification, score and report *)

MandatoryKeywords ==
  { <<"t","r","a","v","e","l">>, <<"h","o","t","e","l">>, <<"f","l","i","g","h","t">>,
    <<"a","i","r","l","i","n","e">>, <<"s","t","a","y">>,
    <<"f","l","y","d","u","b","a","i">>, <<"i","b","i","s">>,
    <<"a","c","c","o","m","m","o","d","a","t","i","o","n">> }

OptionalKeywords ==
  { <<"b","a","n","k"," ","c","h","a","r","g","e","s">>, <<"t","r","a","n","s","f","e","r">>,
    <<"v","a","t">>, <<"t","a","x">>, <<"f","i","n","a","n","c","e">>,
    <<"c","h","a","r","g","e">> }

hasKeyword(exp, keywords) ==
  \E k \in keywords :
    includes(toLowerCase(exp.merchant), k) \/ includes(toLowerCase(exp.category), k)

isMandatory(exp) == hasKeyword(exp, MandatoryKeywords)

\* the mutant of isOptional: the amount is not looked at
isOptionalByKeyword(exp, rates) == hasKeyword(exp, OptionalKeywords)

\* amountINR < 225, the amount being in hundredths
isOptional(exp, rates) ==
  LET amountINR == convertToINR(exp.amount, exp.currency, rates)
  IN  hasKeyword(exp, OptionalKeywords) \/ amountINR.num * RateScale < 22500 * amountINR.den

\* the mutant of scoreOf: the share is cut off instead of rounded
scoreOfTruncated(matchedCount, scoreDenominator) ==
  IF scoreDenominator > 0
  THEN (100 * matchedCount) \div scoreDenominator
  ELSE 100

\* Math.round((matched / denominator) * 100)
scoreOf(matchedCount, scoreDenominator) ==
  IF scoreDenominator > 0
  THEN (200 * matchedCount + scoreDenominator) \div (2 * scoreDenominator)
  ELSE 100

map(s, F(_)) == [k \in 1..Len(s) |-> F(s[k])]

reportOf(exps, pairs, finalUnmatchedBankTx, rates, per, bankSel) ==
  LET mandatoryMissing == filter(finalUnmatchedBankTx, isMandatory)
      optionalMissing ==
        filter(finalUnmatchedBankTx, LAMBDA e : ~isMandatory(e) /\ isOptional(e, rates))
      standardMissing ==
        filter(finalUnmatchedBankTx, LAMBDA e : ~isMandatory(e) /\ ~isOptional(e, rates))
      score == scoreOf(Len(pairs), Len(pairs) + Len(mandatoryMissing) + Len(standardMissing))
  IN  [ matched |-> pairs,
        mandatoryMissing |-> mandatoryMissing,
        standardMissing |-> standardMissing,
        optionalMissing |-> optionalMissing,
        stats |-> [ matchedCount |-> Len(pairs), score |-> score,
                    totalBankTx |-> Len(allAnchorsInPeriod(exps, per, bankSel)),
                    totalVault |-> Len(totalVaultAnchors(exps, bankSel)) ],
        fullReport |->
          [ month |-> per.month,
            year |-> per.year,
            matched_transactions |-> map(pairs, LAMBDA p : p.bank),
            mandatory_missing |-> mandatoryMissing,
            optional_missing |-> optionalMissing,
            standard_missing |-> standardMissing,
            summary |-> [ total_matched |-> Len(pairs),
                          total_unmatched |-> Len(finalUnmatchedBankTx),
                          compliance_score |-> score,
                          mandatory_error_count |-> Len(mandatoryMissing),
                          warning_count |-> Len(standardMissing),
                          optional_count |-> Len(optionalMissing) ] ] ]

filteredDataOf(exps, recon, rates, per, bankSel) ==
  const(matchedPairs(exps, recon, rates, per, bankSel), LAMBDA pairs :
    const(unmatchedAnchors(exps, pairs, per, bankSel), LAMBDA finalUnmatchedBankTx :
      reportOf(exps, pairs, finalUnmatchedBankTx, rates, per, bankSel)))

----------------------------------------------------------------------------
(* The audit session: the handlers that change what filteredData is computed
   from; the memo is recomputed with every one of them *)

\* a record lacks a field the matcher reads with toLowerCase()
hasUndefined(exps) ==
  \E k \in 1..Len(exps) : exps[k].merchant = Undefined \/ exps[k].category = Undefined

\* the advisory map reaches bank.merchant.toLowerCase(), receipt.merchant
\* .toLowerCase() or a category's toLowerCase() on a field that is not there
advisoryThrows(proposals, byId) ==
  \E k \in 1..Len(proposals) :
    LET m == proposals[k]
    IN  /\ m.bankId # 0 /\ m.bankId \in DOMAIN byId
        /\ m.receiptId # 0 /\ m.receiptId \in DOMAIN byId
        /\ byId[m.bankId].id # byId[m.receiptId].id
        /\ ~isAnchor(byId[m.receiptId])
        /\ \/ byId[m.bankId].merchant = Undefined
           \/ byId[m.receiptId].merchant = Undefined
           \/ byId[m.bankId].category = Undefined
           \/ /\ byId[m.receiptId].category = Undefined
              /\ ~includes(toLowerCase(byId[m.bankId].category), <<"l","o","d","g","i","n","g">>)
              /\ ~includes(toLowerCase(byId[m.bankId].category), <<"h","o","t","e","l">>)

\* the proofs a find reads before the first one without merchant
readable(available) ==
  LET missing == { k \in 1..Len(available) : available[k].merchant = Undefined }
  IN  IF missing = {} THEN available ELSE SubSeq(available, 1, SetMin(missing) - 1)

\* availableReceipts.find reaches bankTx.merchant.toLowerCase() or
\* rec.merchant.toLowerCase() on a merchant that is not there
RECURSIVE fallbackThrows(_, _, _)
fallbackThrows(anchors, available, rates) ==
  IF anchors = <<>> \/ available = <<>> THEN FALSE
  ELSE IF Head(anchors).merchant = Undefined THEN TRUE
  ELSE LET k == CHOOSE i \in {autoMatch(Head(anchors), readable(available), rates)} : TRUE
       IN  IF k = 0
           THEN \/ readable(available) # available
                \/ fallbackThrows(Tail(anchors), available, rates)
           ELSE fallbackThrows(Tail(anchors),
                               SubSeq(available, 1, k - 1)
                                 \o SubSeq(available, k + 1, Len(available)),
                               rates)

\* the computation of filteredData ends in a TypeError
throwsTypeError(exps, recon, rates, per, bankSel) ==
  \/ advisoryThrows(recon.matched, expenseMap(exps))
  \/ const(advisoryPairs(exps, recon, rates, per, bankSel), LAMBDA advisory :
       fallbackThrows(unmatchedAnchors(exps, advisory, per, bankSel),
                      availableReceipts(exps, advisory), rates))

\* the render that threw has no filteredData
Aborted == [aborted |-> TRUE]

\* a proof without merchant that no comparison read is in no pair and in no
\* list of the report: the result is that of the pool without it
withoutUnread(exps) == filter(exps, LAMBDA e : isAnchor(e) \/ e.merchant # Undefined)

\* filteredData, or the TypeError of its computation
filteredDataOrThrow(exps, recon, rates, per, bankSel) ==
  IF ~hasUndefined(exps) THEN filteredDataOf(exps, recon, rates, per, bankSel)
  ELSE IF throwsTypeError(exps, recon, rates, per, bankSel) THEN Aborted
  ELSE filteredDataOf(withoutUnread(exps), recon, rates, per, bankSel)

render ==
  filteredData' =
    filteredDataOrThrow(expenses', reconciliation', exchangeData', period', auditBank')

\* subscribeToExpenses delivers a pool with one more expense
ExpensesArrive ==
  /\ Len(expenses) < MaxExpenses
  /\ \E e \in ExpenseUniverse :
       /\ \A k \in 1..Len(expenses) : expenses[k].id # e.id
       /\ expenses' \in sortedPools(Append(expenses, e))
  /\ UNCHANGED <<reconciliation, exchangeData, period, auditBank, audits>>
  /\ render
  /\ UNCHANGED <<travelVars, agentVars, cacheVars, reportVars>>

\* subscribeToExpenses delivers a pool with one more expense, a repeated charge
RepeatedChargeArrives ==
  /\ Len(expenses) < MaxExpenses
  /\ \E e \in RepeatedCharges :
       /\ \A k \in 1..Len(expenses) : expenses[k].id # e.id
       /\ expenses' \in sortedPools(Append(expenses, e))
  /\ UNCHANGED <<reconciliation, exchangeData, period, auditBank, audits>>
  /\ render
  /\ UNCHANGED <<travelVars, agentVars, cacheVars, reportVars>>

\* subscribeToExpenses delivers a pool with one more expense, a malformed one
MalformedArrives ==
  /\ Len(expenses) < MaxExpenses
  /\ \E e \in MalformedUniverse :
       /\ \A k \in 1..Len(expenses) : expenses[k].id # e.id
       /\ expenses' \in sortedPools(Append(expenses, e))
  /\ UNCHANGED <<reconciliation, exchangeData, period, auditBank, audits>>
  /\ render
  /\ UNCHANGED <<travelVars, agentVars, cacheVars, reportVars>>

\* getExchangeRates().then(setExchangeData)
RatesLoaded ==
  /\ exchangeData = NoRates
  /\ exchangeData' = RateTable
  /\ UNCHANGED <<expenses, reconciliation, period, auditBank, audits>>
  /\ render
  /\ UNCHANGED <<travelVars, agentVars, cacheVars, reportVars>>

Months == {"October", AllMonths}

SelectMonth ==
  /\ \E m \in Months \ {period.month} : period' = [period EXCEPT !.month = m]
  /\ UNCHANGED <<expenses, reconciliation, exchangeData, auditBank, audits>>
  /\ render
  /\ UNCHANGED <<travelVars, agentVars, cacheVars, reportVars>>

Accounts == {"Amex", AllAccounts}

SelectBank ==
  /\ \E b \in Accounts \ {auditBank} : auditBank' = b
  /\ UNCHANGED <<expenses, reconciliation, exchangeData, period, audits>>
  /\ render
  /\ UNCHANGED <<travelVars, agentVars, cacheVars, reportVars>>

\* what the reconciliation agent can answer for a pool: up to MaxProposals
\* pairs of ids, no bankId twice
Proposals(exps) ==
  LET ids == { exps[k].id : k \in 1..Len(exps) } \cup {UnknownId}
      one == { [bankId |-> b, receiptId |-> r, proofLabel |-> "Receipt", summary |-> "AI"] :
                 b \in ids, r \in ids }
  IN  { ms \in UNION { [1..n -> one] : n \in 0..MaxProposals } :
          \A i, j \in 1..Len(ms) : i # j => ms[i].bankId # ms[j].bankId }

InitiateAudit ==
  /\ audits < MaxAudits
  /\ allAnchorsInPeriod(expenses, period, auditBank) # <<>>
  /\ \E ms \in Proposals(expenses) : reconciliation' = [matched |-> ms]
  /\ audits' = audits + 1
  /\ UNCHANGED <<expenses, exchangeData, period, auditBank>>
  /\ render
  /\ UNCHANGED <<travelVars, agentVars, cacheVars, reportVars>>

NoReconciliation == [matched |-> <<>>]

ReconInit ==
  /\ expenses = <<>>
  /\ reconciliation = NoReconciliation
  /\ exchangeData = NoRates
  /\ period = [month |-> "October", year |-> 2025]
  /\ auditBank = "Amex"
  /\ audits = 0
  /\ filteredData = filteredDataOf(expenses, reconciliation, exchangeData, period, auditBank)

----------------------------------------------------------------------------
(* The reconciliation agent of the server: runReconciliationAgent *)

BATCH_SIZE == 15

\* retryWithBackoff(fn, maxRetries = 3)
maxRetries == 3

\* the ids of the request's expenses of role PROOF, in request order
proofs == <<101, 102>>

NoResult == <<>>

Min(a, b) == IF a < b THEN a ELSE b

\* the errors the request can throw: one whose message has '429' or
\* 'RESOURCE_EXHAUSTED', and any other
ErrorKinds == {"quota", "other"}

\* Math.random() * 2000, at its ends
Jitters == {0, 1999}

shouldRetryAny(kind, i) == i < maxRetries - 1

\* isQuotaError && i < maxRetries - 1
shouldRetry(kind, i) == kind = "quota" /\ i < maxRetries - 1

\* Math.pow(4, i + 1) * 5000 + Math.random() * 2000
backoffDelay(i, jitter) == (4 ^ (i + 1)) * 5000 + jitter

currentBatchOfSixteen(anchorIds, i) ==
  SubSeq(anchorIds, i + 1, Min(i + BATCH_SIZE + 1, Len(anchorIds)))

\* anchors.slice(i, i + BATCH_SIZE)
currentBatch(anchorIds, i) == SubSeq(anchorIds, i + 1, Min(i + BATCH_SIZE, Len(anchorIds)))

\* [...currentBatch, ...proofs]
batchPool(batch) == batch \o proofs

\* what the model can answer for a batch: up to MaxBatchMatches matches, the
\* bankId being the first anchor of the batch or the first anchor of the request
BatchAnswers(anchorIds, batch) ==
  LET one == { [bankId |-> b, receiptId |-> r, proofLabel |-> "Receipt", summary |-> "AI"] :
                 b \in {batch[1], anchorIds[1]}, r \in Range(proofs) }
  IN  UNION { [1..n -> one] : n \in 0..MaxBatchMatches }

\* batchResult.matched.forEach: a match is pushed unless its bankId is there
RECURSIVE addMatches(_, _)
addMatches(all, ms) ==
  IF ms = <<>> THEN all
  ELSE addMatches(IF \E k \in 1..Len(all) : all[k].bankId = Head(ms).bankId
                  THEN all ELSE Append(all, Head(ms)),
                  Tail(ms))

\* the mutant of afterFailure: the ids of the failed batch are not recorded
afterFailureForgets(unmatched, batch) == unmatched

\* the catch of a batch: unmatchedBankIds.push(...currentBatch.map(a => a.id))
afterFailure(unmatched, batch) == unmatched \o batch

\* the value returned after the loop
resultOf(anchorIds, all, unmatched) ==
  LET matchedBankIds == { all[k].bankId : k \in 1..Len(all) }
      matchedReceiptIds == { all[k].receiptId : k \in 1..Len(all) }
  IN  [ matched |-> all,
        unmatchedReceipts |-> SelectSeq(proofs, LAMBDA p : p \notin matchedReceiptIds),
        unmatchedBankTransactions |->
          SelectSeq(anchorIds, LAMBDA a : a \notin matchedBankIds) \o unmatched ]

\* the end of one turn of the loop: i += BATCH_SIZE, and the return when the
\* loop is over
agentAdvance(all, unmatched) ==
  /\ attempt' = 0
  /\ delays' = <<>>
  /\ agentI' = agentI + BATCH_SIZE
  /\ IF agentI + BATCH_SIZE < Len(agentAnchors)
     THEN agentPc' = "batch" /\ agentResult' = NoResult
     ELSE agentPc' = "done" /\ agentResult' = resultOf(agentAnchors, all, unmatched)

\* a request arrives with n anchors; without anchors the agent returns at once
AgentRequest ==
  /\ agentPc = "idle"
  /\ \E n \in 0..MaxAnchors :
       /\ agentAnchors' = [k \in 1..n |-> k]
       /\ IF n = 0
          THEN /\ agentPc' = "done"
               /\ agentResult' = [ matched |-> <<>>, unmatchedReceipts |-> proofs,
                                   unmatchedBankTransactions |-> <<>> ]
          ELSE /\ agentPc' = "batch"
               /\ agentResult' = NoResult
  /\ UNCHANGED <<agentI, attempt, delays, caught, allMatches, unmatchedBankIds, batchLog>>
  /\ UNCHANGED <<travelVars, reconVars, cacheVars, reportVars>>

\* ai.generate answers for the current batch
AgentBatchAnswers ==
  /\ agentPc = "batch"
  /\ \E ms \in BatchAnswers(agentAnchors, currentBatch(agentAnchors, agentI)) :
       /\ allMatches' = addMatches(allMatches, ms)
       /\ batchLog' = Append(batchLog, [ ids |-> currentBatch(agentAnchors, agentI),
                                         pool |-> batchPool(currentBatch(agentAnchors, agentI)),
                                         failed |-> FALSE, matched |-> ms ])
       /\ agentAdvance(addMatches(allMatches, ms), unmatchedBankIds)
  /\ caught' = "none"
  /\ UNCHANGED <<agentAnchors, unmatchedBankIds>>
  /\ UNCHANGED <<travelVars, reconVars, cacheVars, reportVars>>

\* a quota error before the last attempt: retryWithBackoff waits and retries
AgentQuotaRetry ==
  /\ agentPc = "batch"
  /\ \E kind \in ErrorKinds, jitter \in Jitters :
       /\ shouldRetry(kind, attempt)
       /\ caught' = kind
       /\ delays' = Append(delays, backoffDelay(attempt, jitter))
  /\ attempt' = attempt + 1
  /\ UNCHANGED <<agentPc, agentAnchors, agentI, allMatches, unmatchedBankIds, batchLog,
                 agentResult>>
  /\ UNCHANGED <<travelVars, reconVars, cacheVars, reportVars>>

\* retryWithBackoff throws (an error that is not a quota error, or a quota
\* error at the last attempt) and the catch of the batch runs
AgentBatchFails ==
  /\ agentPc = "batch"
  /\ \E kind \in ErrorKinds :
       /\ ~shouldRetry(kind, attempt)
       /\ caught' = kind
  /\ unmatchedBankIds' = afterFailure(unmatchedBankIds, currentBatch(agentAnchors, agentI))
  /\ batchLog' = Append(batchLog, [ ids |-> currentBatch(agentAnchors, agentI),
                                    pool |-> batchPool(currentBatch(agentAnchors, agentI)),
                                    failed |-> TRUE, matched |-> <<>> ])
  /\ agentAdvance(allMatches,
                  afterFailure(unmatchedBankIds, currentBatch(agentAnchors, agentI)))
  /\ UNCHANGED <<agentAnchors, allMatches>>
  /\ UNCHANGED <<travelVars, reconVars, cacheVars, reportVars>>

AgentInit ==
  /\ agentPc = "idle"
  /\ agentAnchors = <<>>
  /\ agentI = 0
  /\ attempt = 0
  /\ delays = <<>>
  /\ caught = "none"
  /\ allMatches = <<>>
  /\ unmatchedBankIds = <<>>
  /\ batchLog = <<>>
  /\ agentResult = NoResult

----------------------------------------------------------------------------
(* The currency service: getExchangeRates and its cache *)

CACHE_DURATION == 24   \* hours

TickHours == 12        \* the clock moves in steps of TickHours
MaxClock == 48         \* the last hour of the clock

\* localStorage holds no rate table; also the null a call returns
NoCache == <<>>

\* the call at the mount of the Reconciler has not returned yet
NoCall == [fetched |-> FALSE, failed |-> FALSE, value |-> NoCache]

\* Date.now() - parsed.timestamp < CACHE_DURATION, for a cache that is there
isFresh(cached, now) ==
  /\ cached # NoCache
  /\ now - cached.timestamp < CACHE_DURATION

\* ratesData of a successful fetch
ratesData(now) == [rates |-> RateTable, timestamp |-> now]

failedFetchForgets(cached) == NoCache

\* the catch branch: cached ? JSON.parse(cached) : null
failedFetch(cached) == cached

\* exchangeData?.rates || {}
ratesOf(value) == IF value = NoCache THEN NoRates ELSE value.rates

\* getExchangeRates().then(setExchangeData)
setExchangeData(call) ==
  /\ lastRates' = call
  /\ exchangeData' = ratesOf(call.value)
  /\ UNCHANGED <<expenses, reconciliation, period, auditBank, audits>>
  /\ render
  /\ UNCHANGED <<clock, travelVars, agentVars, reportVars>>

\* the cache is younger than CACHE_DURATION: it is returned
RatesFromCache ==
  /\ isFresh(rateCache, clock)
  /\ UNCHANGED rateCache
  /\ setExchangeData([fetched |-> FALSE, failed |-> FALSE, value |-> rateCache])

\* no cache, or an old one: the fetch succeeds
RatesFetched ==
  /\ ~isFresh(rateCache, clock)
  /\ rateCache' = ratesData(clock)
  /\ setExchangeData([fetched |-> TRUE, failed |-> FALSE, value |-> ratesData(clock)])

\* no cache, or an old one: the fetch, or the write of the cache, throws
RatesFetchFails ==
  /\ ~isFresh(rateCache, clock)
  /\ UNCHANGED rateCache
  /\ setExchangeData([fetched |-> TRUE, failed |-> TRUE, value |-> failedFetch(rateCache)])

\* time passes
Tick ==
  /\ clock + TickHours <= MaxClock
  /\ clock' = clock + TickHours
  /\ UNCHANGED <<rateCache, lastRates, travelVars, reconVars, agentVars, reportVars>>

CacheInit ==
  /\ rateCache = NoCache
  /\ clock = 0
  /\ lastRates = NoCall

----------------------------------------------------------------------------
(* Filed reports: saveReconciliation and getReconciliations *)

MaxSaves == 3          \* reports filed in one run of the model

ReportYears == {2025, 2026}

\* the reports File Period Audit can hand to saveReconciliation
ReportsToFile == { [month |-> "October", year |-> y] : y \in ReportYears }

\* the instant of the next save, the source of created_at and of the local id
saveStamp == saves + 1

\* sanitize({ ...report, created_at })
cloudDoc(report, stamp) ==
  [month |-> report.month, year |-> report.year, created_at |-> stamp, is_local |-> FALSE]

\* sanitizeForStorage({ ...report, id: 'local-' + Date.now(), is_local: true })
localDoc(report, stamp) ==
  [month |-> report.month, year |-> report.year, created_at |-> stamp, is_local |-> TRUE]

\* addDoc(collection(db, 'reports'), ...)
addReport(cloud, doc) == Append(cloud, doc)

\* reports.unshift(sanitizedReport)
unshift(reports, doc) == <<doc>> \o reports

\* getLocalReports(year)
getLocalReports(year) == SelectSeq(localReports, LAMBDA r : r.year = year)

\* fetchReportsFromCloud(year)
fetchReportsFromCloud(year) ==
  IF ~sdk THEN { <<>> }
  ELSE Orders(SelectSeq(cloudReports, LAMBDA r : r.year = year))

\* window.FirebaseSDK is set by the page's loader script
SdkLoads ==
  /\ ~sdk
  /\ sdk' = TRUE
  /\ UNCHANGED <<cloudReports, localReports, saves, history>>
  /\ UNCHANGED <<travelVars, reconVars, agentVars, cacheVars>>

\* saveReconciliation: the cloud write is accepted
SaveToCloud ==
  /\ saves < MaxSaves
  /\ sdk
  /\ \E report \in ReportsToFile :
       cloudReports' = addReport(cloudReports, cloudDoc(report, saveStamp))
  /\ saves' = saves + 1
  /\ UNCHANGED <<localReports, sdk, history>>
  /\ UNCHANGED <<travelVars, reconVars, agentVars, cacheVars>>

\* saveReconciliation: the cloud write throws, the catch branch files locally
SaveRefused ==
  /\ saves < MaxSaves
  /\ sdk
  /\ \E report \in ReportsToFile :
       localReports' = unshift(localReports, localDoc(report, saveStamp))
  /\ saves' = saves + 1
  /\ UNCHANGED <<cloudReports, sdk, history>>
  /\ UNCHANGED <<travelVars, reconVars, agentVars, cacheVars>>

\* saveReconciliation without the SDK: saveReportToCloud returns at once
SaveWithoutSdk ==
  /\ saves < MaxSaves
  /\ ~sdk
  /\ saves' = saves + 1
  /\ UNCHANGED <<cloudReports, localReports, sdk, history>>
  /\ UNCHANGED <<travelVars, reconVars, agentVars, cacheVars>>

\* getReconciliations(year): cloud reports, then local reports
GetReconciliations ==
  /\ \E year \in ReportYears :
       \E cloud \in fetchReportsFromCloud(year) :
         history' = [year |-> year, reports |-> cloud \o getLocalReports(year)]
  /\ UNCHANGED <<cloudReports, localReports, sdk, saves>>
  /\ UNCHANGED <<travelVars, reconVars, agentVars, cacheVars>>

\* getReconciliations(year): the cloud fetch throws
GetReconciliationsRestricted ==
  /\ sdk
  /\ \E year \in ReportYears :
       history' = [year |-> year, reports |-> getLocalReports(year)]
  /\ UNCHANGED <<cloudReports, localReports, sdk, saves>>
  /\ UNCHANGED <<travelVars, reconVars, agentVars, cacheVars>>

NoHistory == [year |-> 0, reports |-> <<>>]

ReportInit ==
  /\ cloudReports = <<>>
  /\ localReports = <<>>
  /\ sdk = FALSE
  /\ saves = 0
  /\ history = NoHistory

----------------------------------------------------------------------------
(* Specifications *)

TravelInit ==
  /\ store = <<>>
  /\ pc = "idle"
  /\ allLogs = <<>>
  /\ initialResults = <<>>

Init == TravelInit /\ ReconInit /\ AgentInit /\ CacheInit /\ ReportInit

IngestStep == \E logs \in Batches(RawLogs, docIdOf(store)) : Ingest(logs, MaxLogs)

Next == IngestStep \/ VerifyHotels \/ BridgeReturns

\* every write of a run succeeds
Spec == Init /\ [][Next]_vars

NextFail == Next \/ VerifyHotelsFails \/ BridgeReturnsFails

\* a write of a run may be rejected
SpecFail == Init /\ [][NextFail]_vars

\* the flights and stays of the first days of February, up to MaxStays documents
RawStays ==
  { r \in RawLogs : r.date \in {Feb01, Feb02} /\ r.end_date = NoDate }

IngestStays == \E logs \in Batches(RawStays, docIdOf(store)) : Ingest(logs, MaxStays)

NextStays == IngestStays \/ VerifyHotels \/ BridgeReturns

SpecStays == Init /\ [][NextStays]_vars

NextRecon == ExpensesArrive \/ RatesLoaded \/ SelectMonth \/ SelectBank \/ InitiateAudit

\* an audit session of the Reconciler
SpecRecon == Init /\ [][NextRecon]_vars

NextAgent == AgentRequest \/ AgentBatchAnswers \/ AgentQuotaRetry \/ AgentBatchFails

\* one call of the reconciliation agent
SpecAgent == Init /\ [][NextAgent]_vars

\* the request to the model comes back, with an answer or an error, and the
\* timer of a wait fires
SpecAgentFair == SpecAgent /\ WF_vars(NextAgent)

NextCharges == ExpensesArrive \/ RepeatedChargeArrives \/ InitiateAudit

\* an audit session on a pool that may hold the same charge twice
SpecCharges == Init /\ [][NextCharges]_vars

NextMalformed == ExpensesArrive \/ MalformedArrives \/ RatesLoaded \/ InitiateAudit

\* an audit session on a pool that may hold a malformed proof
SpecMalformed == Init /\ [][NextMalformed]_vars

NextRates == ExpensesArrive \/ Tick \/ RatesFromCache \/ RatesFetched \/ RatesFetchFails

\* the Reconciler is mounted again and again while time passes
SpecRates == Init /\ [][NextRates]_vars

NextReports ==
  \/ SdkLoads \/ SaveToCloud \/ SaveRefused \/ SaveWithoutSdk
  \/ GetReconciliations \/ GetReconciliationsRestricted

\* reports are filed and the history is opened
SpecReports == Init /\ [][NextReports]_vars

----------------------------------------------------------------------------
(* Properties of the Travel Linkage Engine *)

Records == Range(store)

isFlight(r) == r.travel_type = "flight"
isHotel(r) == r.travel_type = "accommodation"

InclusiveDays(from, to) == Abs(DayNumber(to) - DayNumber(from)) + 1

\* C3: no outbound is the outbound_flight_id of two arrivals and no arrival is
\* the return_flight_id of two outbounds, after any runs; and the writes of
\* one bridging pass never bridge the same outbound or the same arrival twice.
BridgingIsOneToOne ==
  /\ \A r1, r2 \in Records :
       r1.id # r2.id =>
         /\ (r1.outbound_flight_id # 0 => r1.outbound_flight_id # r2.outbound_flight_id)
         /\ (r1.return_flight_id # 0 => r1.return_flight_id # r2.return_flight_id)
  /\ pc = "verified" =>
       LET writes == bridgeFlightsWrites(allLogs)
       IN  \A i, j \in 1..Len(writes) : writes[i].id = writes[j].id => i = j

\* C3 witness: an outbound was bridged in a pass that held a second, later
\* arrival without an outbound, which stayed unbridged.
BridgedWithSecondArrivalWaiting ==
  /\ pc = "idle"
  /\ \E o, a1, a2 \in Records :
       /\ o.return_flight_id = a1.id /\ a1.outbound_flight_id = o.id
       /\ a2.id # a1.id /\ isFlight(a2) /\ isHomeLocation(a2)
       /\ a2.outbound_flight_id = 0
       /\ DayNumber(a2.start_date) >= DayNumber(a1.start_date)
       /\ (a2.id < o.id \/ a2.id < a1.id)

\* C4: after a bridging pass, also one that a rejected write ended, an arrival
\* names an outbound in outbound_flight_id exactly if that outbound names the
\* arrival in return_flight_id.
BridgeLinksSymmetric ==
  pc = "idle" =>
    \A a, o \in Records :
      (a.outbound_flight_id = o.id) <=> (o.return_flight_id = a.id)

\* C5: Verify Hotels run again on the state a run of Verify Hotels left
\* changes no record.
VerifyHotelsIdempotent ==
  pc \in {"verified", "idle"} =>
    applyWrites(store, verifyHotelsWrites(docsOf(store))) = store

\* C5 witness: a run that ingested nothing has gone through Verify Hotels on a
\* store that holds a verified flight and a flight that stayed unverified.
VerifyHotelsRanAgain ==
  /\ pc = "verified"
  /\ initialResults = <<>>
  /\ \E f \in Records : isFlight(f) /\ f.hotel_verification_status = "verified"
  /\ \E f \in Records : isFlight(f) /\ f.hotel_verification_status = "missing"

\* C6: after Verify Hotels the hotel/flight links are paired: a hotel whose
\* linked_flight_id is a flight is named by that flight's linked_hotel_id, and
\* a flight with a linked_hotel_id is the linked_flight_id of a hotel that the
\* id names; no record holds a one-sided link.
HotelLinksPaired ==
  pc \in {"verified", "idle"} =>
    /\ \A h \in Records :
         (isHotel(h) /\ h.linked_flight_id # 0) =>
           \E f \in Records :
             isFlight(f) /\ f.id = h.linked_flight_id /\ f.linked_hotel_id = hotelKey(h)
    /\ \A f \in Records :
         (isFlight(f) /\ f.linked_hotel_id # 0) =>
           \E h \in Records :
             isHotel(h) /\ hotelKey(h) = f.linked_hotel_id /\ h.linked_flight_id = f.id

\* C7: every stored record has days_spent >= 1; a home flight and a stay have
\* the inclusive day count from start_date to end_date, a flight abroad with a
\* return date the inclusive day count from start_date to return_date, and
\* every other flight has 1.
DaysSpentInvariant ==
  \A r \in Records :
    /\ r.days_spent >= 1
    /\ (isHotel(r) \/ isHomeLocation(r)) =>
         r.days_spent = InclusiveDays(r.start_date, r.end_date)
    /\ (isFlight(r) /\ ~isHomeLocation(r) /\ r.return_date # NoDate) =>
         r.days_spent = InclusiveDays(r.start_date, r.return_date)
    /\ (isFlight(r) /\ ~isHomeLocation(r) /\ r.return_date = NoDate) =>
         r.days_spent = 1

\* C7 witness: an outbound of 2025-01-05 bridged to an arrival of 2025-01-09
\* counts 5 days, next to a stay of more than one day.
BridgedOutboundCountsDays ==
  /\ \E o \in Records :
       /\ isFlight(o) /\ ~isHomeLocation(o) /\ o.return_flight_id # 0
       /\ o.start_date = Jan05 /\ o.return_date = Jan09 /\ o.days_spent = 5
  /\ \E h \in Records : isHotel(h) /\ h.days_spent > 1

\* Scenario C for a city: the pass ran on a snapshot of just a flight to the
\* city on 2025-02-01 and an unlinked hotel in the city starting 2025-02-02
ScenarioC(city, f, h) ==
  /\ pc = "verified"
  /\ Len(allLogs) = 2
  /\ isFlight(f) /\ f.destination_city = city /\ f.start_date = Feb01
  /\ isHotel(h) /\ h.destination_city = city /\ h.start_date = Feb02
  /\ h.linked_flight_id = 0

\* C10 as stated: in Scenario C with "Dubai" the flight ends verified, its
\* linked_hotel_id names the hotel, and the hotel is Complete.
ScenarioCDubaiVerified ==
  \A f, h \in Range(allLogs) :
    ScenarioC(Dubai, f, h) =>
      /\ store[f.id].hotel_verification_status = "verified"
      /\ store[f.id].linked_hotel_id = hotelKey(h)
      /\ store[h.id].status = "Complete"

\* C10 amended: in Scenario C with "Muscat", a city abroad, the flight ends
\* verified, its linked_hotel_id names the hotel and the hotel is Complete;
\* with "Dubai", the home location, the flight stays not_required and without
\* a linked hotel, and the hotel is Complete.
ScenarioCAbroadVerified ==
  \A f, h \in Range(allLogs) :
    /\ ScenarioC(Muscat, f, h) =>
         /\ store[f.id].hotel_verification_status = "verified"
         /\ store[f.id].linked_hotel_id = hotelKey(h)
         /\ store[h.id].linked_flight_id = f.id
         /\ store[h.id].status = "Complete"
    /\ ScenarioC(Dubai, f, h) =>
         /\ store[f.id].hotel_verification_status = "not_required"
         /\ store[f.id].linked_hotel_id = 0
         /\ store[h.id].linked_flight_id = 0
         /\ store[h.id].status = "Complete"

\* C10 witness: Scenario C with "Muscat" has run and the flight is verified.
ScenarioCAbroadReached ==
  \E f, h \in Range(allLogs) :
    /\ ScenarioC(Muscat, f, h)
    /\ store[f.id].hotel_verification_status = "verified"

----------------------------------------------------------------------------
(* Properties of the Reconciliation Engine *)

matched == filteredData.matched
fullReport == filteredData.fullReport
rates == exchangeData

\* the lists of the report, one after the other
reportLists ==
  fullReport.matched_transactions \o fullReport.mandatory_missing
    \o fullReport.standard_missing \o fullReport.optional_missing

scopedAnchors == allAnchorsInPeriod(expenses, period, auditBank)

\* C1: every pair of the final matched list, advisory or fallback, has an
\* anchor (a bank or credit card statement record) as its bank member and a
\* proof (a record of any other source) as its receipt member.
MatchedPairsAnchorToProof ==
  \A k \in 1..Len(matched) :
    isAnchor(matched[k].bank) /\ ~isAnchor(matched[k].receipt)

\* C2: the four lists of the report hold exactly the anchors of the selected
\* period and account: each of them once, no other record, and the four
\* counts of the summary add up to their number.
ReportListsPartitionAnchors ==
  /\ \A a \in Range(scopedAnchors) :
       Cardinality({ k \in 1..Len(reportLists) : reportLists[k] = a }) = 1
  /\ \A k \in 1..Len(reportLists) : reportLists[k] \in Range(scopedAnchors)
  /\ fullReport.summary.total_matched + fullReport.summary.mandatory_error_count
       + fullReport.summary.warning_count + fullReport.summary.optional_count
     = Len(scopedAnchors)

\* C8: amount parity is symmetric: for any two expenses of the pool and the
\* rate table in use, parity with the one as anchor and the other as proof is
\* parity with the two the other way round.
ParityIsSymmetric ==
  \A a, b \in Range(expenses) : sameAmt(a, b, rates) <=> sameAmt(b, a, rates)

\* the deterministic rules of a pair, as the matcher's contract states them
dateWindow(bank, rec) == IF isHotelPair(bank, rec) THEN 14 ELSE 7

passesRules(bank, rec) ==
  /\ bank.id # rec.id
  /\ mercMatch(bank, rec)
  /\ Abs(DayNumber(bank.date) - DayNumber(rec.date)) <= dateWindow(bank, rec)
  /\ sameAmt(bank, rec, rates)

isAdvisory(pair) == pair.label # AutoLabel

\* the pairs the advisory pass leaves to the fallback pass
survivors == advisoryPairs(expenses, reconciliation, rates, period, auditBank)

\* proposal m names two expenses of the pool that fail a rule
failsRules(m) ==
  /\ m.bankId \in DOMAIN expenseMap(expenses)
  /\ m.receiptId \in DOMAIN expenseMap(expenses)
  /\ ~passesRules(expenseMap(expenses)[m.bankId], expenseMap(expenses)[m.receiptId])

\* C9: every advisory pair of the final matched list passes the rules (ids
\* differ, merchants match, the dates are at most 7 days apart, 14 for a
\* lodging or hotel category, amount parity holds); a proposal failing a rule
\* is not in the list, and its two records stay with the fallback pass: the
\* anchor, when in scope, among the unmatched anchors and the proof among the
\* available receipts, unless a surviving pair holds the record.
AdvisorySurvivorsPassRules ==
  /\ \A k \in 1..Len(matched) :
       isAdvisory(matched[k]) => passesRules(matched[k].bank, matched[k].receipt)
  /\ \A i \in 1..Len(reconciliation.matched) :
       LET m == reconciliation.matched[i]
           bank == expenseMap(expenses)[m.bankId]
           rec == expenseMap(expenses)[m.receiptId]
       IN  failsRules(m) =>
             /\ \A k \in 1..Len(matched) :
                  isAdvisory(matched[k]) =>
                    ~(matched[k].bank.id = bank.id /\ matched[k].receipt.id = rec.id)
             /\ (bank \in Range(scopedAnchors)
                   /\ \A k \in 1..Len(survivors) : survivors[k].bank.id # bank.id)
                  => bank \in Range(unmatchedAnchors(expenses, survivors, period, auditBank))
             /\ (~isAnchor(rec)
                   /\ \A k \in 1..Len(survivors) : survivors[k].receipt.id # rec.id)
                  => rec \in Range(availableReceipts(expenses, survivors))

\* C9 witness: of two proposals one survives under the 14 day window of a
\* lodging pair, the dates being more than 7 days apart, and the other, 17
\* days apart and not lodging, is dropped; its anchor is reported missing.
SurvivorAndDroppedProposal ==
  /\ \E k \in 1..Len(matched) :
       /\ isAdvisory(matched[k])
       /\ diffDays(matched[k].bank, matched[k].receipt) > 7
  /\ \E i \in 1..Len(reconciliation.matched) :
       /\ failsRules(reconciliation.matched[i])
       /\ isAnchor(expenseMap(expenses)[reconciliation.matched[i].bankId])
       /\ diffDays(expenseMap(expenses)[reconciliation.matched[i].bankId],
                   expenseMap(expenses)[reconciliation.matched[i].receiptId]) > 14
       /\ expenseMap(expenses)[reconciliation.matched[i].bankId]
            \in Range(fullReport.standard_missing) \cup Range(fullReport.optional_missing)

----------------------------------------------------------------------------
(* The fallback pass *)

\* the position of expense e in the sequence s, 0 when it is not there
indexOf(s, e) == IF \E k \in 1..Len(s) : s[k].id = e.id
                 THEN SetMin({ k \in 1..Len(s) : s[k].id = e.id })
                 ELSE 0

\* the heuristic rules of the fallback pass, as the matcher's contract states
\* them: merchants match, at most 3 days apart (14 for lodging or hotel),
\* amount parity
fallbackRules(bank, rec) ==
  /\ mercMatch(bank, rec)
  /\ Abs(DayNumber(bank.date) - DayNumber(rec.date))
       <= (IF isHotelPair(bank, rec) THEN 14 ELSE 3)
  /\ sameAmt(bank, rec, rates)

\* the pairs of the final list that the fallback pass accepted
fallbackMatched == filter(matched, LAMBDA pair : ~isAdvisory(pair))

\* what validation leaves to the fallback pass, both in pool order
fallbackAnchors == unmatchedAnchors(expenses, survivors, period, auditBank)
fallbackPool == availableReceipts(expenses, survivors)

----------------------------------------------------------------------------
(* Properties of the reconciliation agent *)

\* the number of batches of a request of n anchors
batchCount(n) == (n + BATCH_SIZE - 1) \div BATCH_SIZE

\* match j of batch k has a bankId that an earlier match of a batch that
\* succeeded, or an earlier match of the same batch, has
repeatsBankId(k, j) ==
  \/ \E j2 \in 1..(j - 1) : batchLog[k].matched[j2].bankId = batchLog[k].matched[j].bankId
  \/ \E k2 \in 1..(k - 1) : \E j2 \in 1..Len(batchLog[k2].matched) :
       batchLog[k2].matched[j2].bankId = batchLog[k].matched[j].bankId

\* C12: a batch whose advisory request fails does not fail the run: when the
\* agent has returned, every batch of the request was gone through, the
\* result is a normal one, every match of a batch that succeeded is in the
\* result's matched (unless an earlier match has its bankId), matched holds
\* nothing else, and every anchor of a failed batch is in
\* unmatchedBankTransactions.
AgentSurvivesFailedBatch ==
  (agentPc = "done" /\ agentAnchors # <<>>) =>
    /\ Len(batchLog) = batchCount(Len(agentAnchors))
    /\ \A k \in 1..Len(batchLog) :
         batchLog[k].ids = [ j \in 1..Min(BATCH_SIZE, Len(agentAnchors) - (k - 1) * BATCH_SIZE)
                               |-> agentAnchors[(k - 1) * BATCH_SIZE + j] ]
    /\ agentResult # NoResult
    /\ DOMAIN agentResult = {"matched", "unmatchedReceipts", "unmatchedBankTransactions"}
    /\ \A k \in 1..Len(batchLog) : \A j \in 1..Len(batchLog[k].matched) :
         ~batchLog[k].failed =>
           \/ batchLog[k].matched[j] \in Range(agentResult.matched)
           \/ repeatsBankId(k, j)
    /\ \A m \in Range(agentResult.matched) :
         \E k \in 1..Len(batchLog) : ~batchLog[k].failed /\ m \in Range(batchLog[k].matched)
    /\ \A k \in 1..Len(batchLog) :
         batchLog[k].failed =>
           \A a \in Range(batchLog[k].ids) : a \in Range(agentResult.unmatchedBankTransactions)

\* C12 witness: the agent returned from a run of three batches of which the
\* second failed; a match of the first and a match of the third, on an anchor
\* of the third batch, are in the result.
FailedBatchBetweenTwoGood ==
  /\ agentPc = "done"
  /\ Len(batchLog) = 3
  /\ ~batchLog[1].failed /\ batchLog[2].failed /\ ~batchLog[3].failed
  /\ \E m \in Range(batchLog[1].matched) : m \in Range(agentResult.matched)
  /\ \E m \in Range(batchLog[3].matched) :
       m \in Range(agentResult.matched) /\ m.bankId \in Range(batchLog[3].ids)

----------------------------------------------------------------------------
(* The compliance score *)

\* score is 100 * matchedCount / denominator rounded to the nearest integer
isRoundedShare(score, matchedCount, denominator) ==
  /\ score \in 0..100
  /\ 2 * Abs(100 * matchedCount - score * denominator) <= denominator

\* C13: compliance_score is round(100 * matched / (matched + mandatory +
\* standard)), the optional count not being in the denominator, 100 when that
\* denominator is 0, and always an integer from 0 to 100: for the report of
\* every state, and for every combination of counts up to MaxCount.
ComplianceScoreIsRoundedShare ==
  /\ LET matchedCount == Len(fullReport.matched_transactions)
         denominator == matchedCount + Len(fullReport.mandatory_missing)
                          + Len(fullReport.standard_missing)
         score == fullReport.summary.compliance_score
     IN  /\ score \in 0..100
         /\ denominator = 0 => score = 100
         /\ denominator > 0 => isRoundedShare(score, matchedCount, denominator)
         /\ filteredData.stats.score = score
  /\ \A matchedCount, mandatory, standard \in 0..MaxCount :
       LET denominator == matchedCount + mandatory + standard
       IN  IF denominator = 0 THEN scoreOf(matchedCount, denominator) = 100
           ELSE isRoundedShare(scoreOf(matchedCount, denominator), matchedCount, denominator)

\* C13 witness: a report with a matched anchor and an optional one and no
\* other: the score is 100, where a denominator counting the optional anchor
\* would give 50.
ScoreLeavesOptionalOut ==
  /\ Len(fullReport.matched_transactions) = 1
  /\ isAnchor(fullReport.matched_transactions[1])
  /\ Len(fullReport.optional_missing) = 1
  /\ Len(fullReport.mandatory_missing) + Len(fullReport.standard_missing) = 0
  /\ fullReport.summary.compliance_score = 100

----------------------------------------------------------------------------
(* The classification of the unmatched anchors *)

\* the scoped anchors that no pair of the final list holds
finalUnmatchedBankTx ==
  filter(scopedAnchors, LAMBDA b : \A k \in 1..Len(matched) : matched[k].bank.id # b.id)

\* the number of times expense e is in the list s
timesIn(s, e) == Cardinality({ k \in 1..Len(s) : s[k] = e })

\* the base-currency amount of e is below the threshold of 225.00
belowThreshold(e) ==
  LET amountINR == convertToINR(e.amount, e.currency, rates)
  IN  amountINR.num * RateScale < 22500 * amountINR.den

suggestsFees(e) == hasKeyword(e, OptionalKeywords)

\* e is one of the unmatched scoped anchors and is in the class given by the
\* two tests: mandatory first, then optional, then standard
classifiedBy(e, mandatory, optional) ==
  /\ timesIn(fullReport.mandatory_missing, e) = (IF mandatory THEN 1 ELSE 0)
  /\ timesIn(fullReport.optional_missing, e) = (IF ~mandatory /\ optional THEN 1 ELSE 0)
  /\ timesIn(fullReport.standard_missing, e) = (IF ~mandatory /\ ~optional THEN 1 ELSE 0)

\* the three lists hold unmatched scoped anchors only
classesWithinUnmatched ==
  \A e \in Range(fullReport.mandatory_missing) \cup Range(fullReport.optional_missing)
             \cup Range(fullReport.standard_missing) :
    e \in Range(finalUnmatchedBankTx)

\* the words the statement of the classes names for the mandatory class
StatedMandatoryWords ==
  MandatoryKeywords \cup { <<"t","r","a","n","s","p","o","r","t">> }

\* C14 as stated: every unmatched scoped anchor is in exactly one class:
\* mandatory when its merchant or category suggests travel, hotel or
\* transport, else optional when it suggests bank fees, VAT or transfers or
\* its base-currency amount is below the threshold, else standard.
ClassesByTravelHotelTransport ==
  /\ classesWithinUnmatched
  /\ \A e \in Range(finalUnmatchedBankTx) :
       classifiedBy(e, hasKeyword(e, StatedMandatoryWords),
                    suggestsFees(e) \/ belowThreshold(e))

\* C14 amended: every unmatched scoped anchor is in exactly one class:
\* mandatory when its merchant or category contains one of the words travel,
\* hotel, flight, airline, stay, flydubai, ibis, accommodation (a category
\* Transport does not make it mandatory), else optional when it contains a
\* fee word or its base-currency amount is below the threshold, else standard.
ClassesByKeywordLists ==
  /\ classesWithinUnmatched
  /\ \A e \in Range(finalUnmatchedBankTx) :
       classifiedBy(e, hasKeyword(e, MandatoryKeywords),
                    suggestsFees(e) \/ belowThreshold(e))

\* C14 witness: the three classes are all in use, the optional one holding
\* an anchor of category Transport that is below the threshold.
ThreeClassesInUse ==
  /\ fullReport.mandatory_missing # <<>>
  /\ fullReport.standard_missing # <<>>
  /\ \E e \in Range(fullReport.optional_missing) :
       e.category = Transport /\ belowThreshold(e) /\ ~suggestsFees(e)

----------------------------------------------------------------------------
(* Deduplication on ingestion *)

\* two travel records duplicate each other: (a) both have a reference number
\* and the two are equal ignoring case, or (b) equal start date, equal
\* destination city ignoring case and equal travel_type
duplicates(a, b) ==
  \/ /\ a.reference_number # <<>>
     /\ b.reference_number # <<>>
     /\ toUpperCase(a.reference_number) = toUpperCase(b.reference_number)
  \/ /\ a.start_date = b.start_date
     /\ toLowerCase(a.destination_city) = toLowerCase(b.destination_city)
     /\ a.travel_type = b.travel_type

\* C15: addTravelLogs inserts no record that duplicates a record already
\* stored: no stored record duplicates a record stored before it (ids grow
\* with insertion, and the fields compared are never rewritten).
NoStoredDuplicate ==
  \A i, j \in DOMAIN store : i < j => ~duplicates(store[j], store[i])

----------------------------------------------------------------------------
(* The status of a travel record *)

Open == "Open - Awaiting return"
Complete == "Complete"

isHomeLeg(r) == isHomeLocation(r)

\* a flight abroad for which the extractor gave a return date
isRoundTripRecord(r) == isFlight(r) /\ ~isHomeLeg(r) /\ r.return_date # NoDate

\* the step bridges record id to an arrival: it now names a home flight
bridgedInStep(id) ==
  /\ store[id].return_flight_id = 0
  /\ store'[id].return_flight_id \in DOMAIN store'
  /\ isFlight(store'[store'[id].return_flight_id])
  /\ isHomeLeg(store'[store'[id].return_flight_id])

\* the step links hotel id to a flight
hotelMatchedInStep(id) == isHotel(store'[id]) /\ store'[id].linked_flight_id \in DOMAIN store'

StatusStep ==
  \A id \in DOMAIN store' :
    IF id \notin DOMAIN store
    THEN store'[id].status =
           (IF isHomeLeg(store'[id]) \/ isRoundTripRecord(store'[id]) \/ isHotel(store'[id])
            THEN Complete ELSE Open)
    ELSE /\ store[id].status = Complete => store'[id].status = Complete
         /\ store'[id].status # store[id].status =>
              /\ store[id].status = Open
              /\ store'[id].status = Complete
              /\ bridgedInStep(id) \/ hotelMatchedInStep(id)

\* C16: the status of a travel record follows the state machine: a record
\* is stored Complete when it is a home leg, a round trip or an accommodation
\* record and Open - Awaiting return otherwise; afterwards its status changes
\* only from Open - Awaiting return to Complete, and only in a step that
\* bridges it to an arrival (or links it, a hotel, to a flight); a Complete
\* record stays Complete.
StatusStateMachine == [][StatusStep]_vars

\* C16 witness: a flight abroad without return date, stored Open, is
\* Complete after a bridging pass, while another flight abroad is still Open.
OpenBecameCompleteOtherStillOpen ==
  \E a, b \in DOMAIN store :
    /\ isFlight(store[a]) /\ ~isHomeLeg(store[a])
    /\ store[a].status = Complete
    /\ store[a].return_flight_id \in DOMAIN store
    /\ isFlight(store[b]) /\ ~isHomeLeg(store[b])
    /\ store[b].status = Open
    /\ pc = "idle"

----------------------------------------------------------------------------
(* The bridging pass *)

startDay(id) == DayNumber(store[id].start_date)

\* the home-bound arrivals the pass finds without an outbound link
unlinkedArrivals ==
  { id \in DOMAIN store :
      isFlight(store[id]) /\ isHomeLeg(store[id]) /\ store[id].outbound_flight_id = 0 }

\* outbound o is open, not yet bridged, and starts on or before arrival a
eligibleOutbound(o, a) ==
  /\ store[o].status = Open
  /\ ~isHomeLeg(store[o])
  /\ store[o].return_flight_id = 0
  /\ startDay(o) <= startDay(a)

\* the pass gave outbound o to an arrival that comes before a in date order
takenEarlier(o, a) ==
  \E a2 \in unlinkedArrivals \ {a} :
    startDay(a2) <= startDay(a) /\ store'[a2].outbound_flight_id = o

BridgeStep ==
  (pc = "verified" /\ pc' = "idle") =>
    /\ DOMAIN store' = DOMAIN store
    /\ \A a \in unlinkedArrivals :
         LET o == store'[a].outbound_flight_id
         IN  IF o # 0
             THEN /\ o \in DOMAIN store
                  /\ eligibleOutbound(o, a)
                  /\ \A o2 \in DOMAIN store :
                       (eligibleOutbound(o2, a) /\ startDay(o2) > startDay(o))
                         => takenEarlier(o2, a)
                  /\ store'[o].status = Complete
                  /\ store'[o].return_date = store[a].start_date
                  /\ store'[o].return_flight_id = a
                  /\ store'[o].days_spent
                       = InclusiveDays(store[o].start_date, store[a].start_date)
                  /\ (store[o].start_date = Jan05 /\ store[a].start_date = Jan09)
                       => store'[o].days_spent = 5
             ELSE \A o2 \in DOMAIN store : eligibleOutbound(o2, a) => takenEarlier(o2, a)
    /\ \A id \in DOMAIN store :
         (id \notin unlinkedArrivals
            /\ \A a \in unlinkedArrivals : store'[a].outbound_flight_id # id)
           => store'[id] = store[id]

\* C17: a bridging pass pairs each home-bound arrival without outbound link,
\* in ascending date order, with the latest-starting open outbound that
\* starts on or before the arrival and is not yet bridged; the outbound
\* becomes Complete with return_date the arrival's date, return_flight_id the
\* arrival and days_spent the inclusive day count (5 for 2025-01-05 to
\* 2025-01-09), and the arrival gets outbound_flight_id the outbound; an
\* arrival stays unlinked only when no such outbound is left for it.
BridgeReturnsPairsNearest == [][BridgeStep]_vars

\* C17 witness (scenario B): the collection holds just an outbound to Muscat
\* of 2025-01-05 and a home arrival of 2025-01-09; after the pass the outbound
\* is Complete with days_spent 5 and the two name each other.
ScenarioBBridged ==
  /\ pc = "idle"
  /\ Cardinality(DOMAIN store) = 2
  /\ \E o, a \in DOMAIN store :
       /\ isFlight(store[o]) /\ store[o].destination_city = Muscat
       /\ store[o].start_date = Jan05
       /\ isFlight(store[a]) /\ isHomeLeg(store[a]) /\ store[a].start_date = Jan09
       /\ store[o].status = Complete /\ store[o].days_spent = 5
       /\ store[o].return_date = Jan09
       /\ store[o].return_flight_id = a /\ store[a].outbound_flight_id = o

----------------------------------------------------------------------------
(* The hotel verification status *)

HotelVerificationStep ==
  \A id \in DOMAIN store' :
    /\ IF id \notin DOMAIN store
       THEN store'[id].hotel_verification_status =
              (IF ~isHotel(store'[id]) /\ ~isHomeLeg(store'[id])
               THEN "missing" ELSE "not_required")
       ELSE /\ store'[id].hotel_verification_status # store[id].hotel_verification_status
                 => store'[id].hotel_verification_status = "verified"
            /\ store[id].hotel_verification_status = "verified"
                 => store'[id].hotel_verification_status = "verified"
    /\ (isFlight(store'[id]) /\ isHomeLeg(store'[id]))
         => store'[id].hotel_verification_status = "not_required"

\* C18: hotel verification only moves forward: a record is stored with
\* missing when it is a flight that is not a home leg and with not_required
\* otherwise; afterwards hotel_verification_status changes only to verified,
\* a home flight never gets verified, and a verified record is verified in
\* every later state, whatever is ingested.
HotelVerificationMonotone == [][HotelVerificationStep]_vars

\* C18 witness: a flight was verified against a stay by an earlier run and is
\* still verified after a later run, which ingested a flight abroad that is
\* missing.
VerifiedStaysWhileOthersArrive ==
  /\ pc = "idle"
  /\ \E f, g \in DOMAIN store :
       /\ f < g
       /\ isFlight(store[f]) /\ store[f].hotel_verification_status = "verified"
       /\ store[f].linked_hotel_id # 0
       /\ store[f].document_id < store[g].document_id
       /\ isFlight(store[g]) /\ ~isHomeLeg(store[g])
       /\ store[g].hotel_verification_status = "missing"

----------------------------------------------------------------------------
(* The arrival without outbound *)

Incomplete == "Incomplete - Outbound missing"

\* C19: a home-bound arrival for which a bridging pass found no preceding
\* unbridged outbound has the status Incomplete - Outbound missing: after a
\* pass, every home flight without outbound link has that status.
UnbridgedArrivalIsIncomplete ==
  pc = "idle" =>
    \A r \in Records :
      (isFlight(r) /\ isHomeLeg(r) /\ r.outbound_flight_id = 0) => r.status = Incomplete

----------------------------------------------------------------------------
(* The conversion without a rate *)

\* the conversion of e's amount is the 1:1 fallback: its currency is not the
\* base currency and the rates in use have none for it
isDegraded(e) ==
  toUpperCase(e.currency) # INR /\ rateOf(rates, toUpperCase(e.currency)) = 0

\* r is a proof of the pool that no pair of the final list holds
leftAvailable(r) ==
  ~isAnchor(r) /\ \A k \in 1..Len(matched) : matched[k].receipt.id # r.id

\* C20: the passes do not reject a pair on amount parity merely because a
\* conversion was the 1:1 fallback: no scoped anchor is left unmatched next to
\* an unaccepted proof of another currency when the two pass the merchant and
\* the date rule of the fallback pass, a conversion of the two is the
\* fallback, and their amounts are in parity under the rate table.
DegradedParityNeverRejects ==
  \A b \in Range(finalUnmatchedBankTx) : \A r \in Range(expenses) :
    ~ /\ leftAvailable(r)
      /\ b.currency # r.currency
      /\ isDegraded(b) \/ isDegraded(r)
      /\ mercMatch(b, r)
      /\ Abs(DayNumber(b.date) - DayNumber(r.date))
           <= (IF isHotelPair(b, r) THEN 14 ELSE 3)
      /\ sameAmt(b, r, RateTable)

----------------------------------------------------------------------------
(* Properties of the rate cache *)

\* hours since the cached table was fetched
cacheAge == clock - rateCache.timestamp

\* the Reconciler holds a report computed from what the call returned
reportStands ==
  /\ exchangeData = ratesOf(lastRates.value)
  /\ filteredData = filteredDataOf(expenses, reconciliation, exchangeData, period, auditBank)
  /\ filteredData.fullReport.summary.compliance_score \in 0..100

RateCacheStep ==
  lastRates' # lastRates =>
    /\ (rateCache # NoCache /\ cacheAge < CACHE_DURATION) =>
         /\ ~lastRates'.fetched
         /\ lastRates'.value = rateCache
         /\ rateCache' = rateCache
    /\ (rateCache = NoCache \/ cacheAge > CACHE_DURATION) =>
         /\ lastRates'.fetched
         /\ ~lastRates'.failed =>
              /\ rateCache' = lastRates'.value
              /\ rateCache' = [rates |-> RateTable, timestamp |-> clock]
         /\ lastRates'.failed =>
              /\ lastRates'.value = rateCache
              /\ rateCache' = rateCache
    /\ reportStands'

\* C21: a call of getExchangeRates returns the cached table without a fetch
\* while the cache is younger than 24 hours; with an older cache, or none, it
\* fetches, and a successful fetch replaces the cache with the table it
\* returns, while a failed fetch returns what was cached (nothing when there
\* was no cache) and leaves the cache as it was; the cache changes in no other
\* step; and whatever the call returned, nothing included, the Reconciler
\* computes a report from it.
RateCacheIsStaleAfterADay ==
  [][ /\ RateCacheStep
      /\ lastRates' = lastRates => rateCache' = rateCache ]_vars

\* a refresh failed on a cache older than a day and served the old table
StaleTableServedAfterFailedFetch ==
  /\ lastRates.fetched
  /\ lastRates.failed
  /\ lastRates.value = rateCache
  /\ rateCache # NoCache
  /\ cacheAge > CACHE_DURATION
  /\ exchangeData = RateTable
  /\ expenses # <<>>

----------------------------------------------------------------------------
(* Properties of the filed reports *)

\* a is the beginning of b
isPrefix(a, b) == Len(a) <= Len(b) /\ SubSeq(b, 1, Len(a)) = a

\* a is the end of b
isSuffix(a, b) == Len(a) <= Len(b) /\ SubSeq(b, Len(b) - Len(a) + 1, Len(b)) = a

\* the reports filed in the cloud and in the local list together
filedCount == Len(cloudReports) + Len(localReports)

\* C22: filed reports are append-only: every completed saveReconciliation adds
\* one new report, to the cloud collection or to the local list; no step
\* changes or removes a report that was filed before, in either place; and a
\* report appears only in a step of saveReconciliation.
ReportsAreAppendOnly ==
  [][ /\ isPrefix(cloudReports, cloudReports')
      /\ isSuffix(localReports, localReports')
      /\ saves' = saves + 1 => filedCount' = filedCount + 1
      /\ saves' = saves => filedCount' = filedCount ]_vars

\* the places that hold the report of the save with this stamp
placesOf(stamp) ==
  Cardinality({ k \in 1..Len(cloudReports) : cloudReports[k].created_at = stamp })
  + Cardinality({ k \in 1..Len(localReports) : localReports[k].created_at = stamp })

\* C30: whenever saveReconciliation has completed, its report is stored in
\* exactly one place, the cloud collection or the local fallback list, also
\* when the storage SDK is not initialised or the cloud write is refused.
SavedReportIsStoredOnce == \A stamp \in 1..saves : placesOf(stamp) = 1

----------------------------------------------------------------------------
(* Properties of the Reconciler on malformed records *)

\* the record has a date that is no date or lacks its merchant or category
isMalformed(e) ==
  \/ Len(e.date) # 3
  \/ e.merchant = Undefined
  \/ e.category = Undefined

\* C23: a record with a malformed date or without merchant or category is
\* excluded from matching: the reconciliation of the pool is not aborted by
\* it, and no matched pair, advisory or fallback, holds it.
MalformedRecordsStayOut ==
  /\ filteredData # Aborted
  /\ \A k \in 1..Len(filteredData.matched) :
       /\ ~isMalformed(filteredData.matched[k].bank)
       /\ ~isMalformed(filteredData.matched[k].receipt)

----------------------------------------------------------------------------
(* Properties of retryWithBackoff *)

\* the calls of the request made so far by the retryWithBackoff call under way
callsMade == attempt + 1

\* the batches the loop has gone through
batchesDone == Len(batchLog)

\* the most batches a request has
MaxBatches == (MaxAnchors + BATCH_SIZE - 1) \div BATCH_SIZE

\* at most maxRetries calls, one wait before every call but the first, every
\* wait longer than the one before
RetryBounds ==
  /\ callsMade \in 1..maxRetries
  /\ Len(delays) = attempt
  /\ \A k \in 1..Len(delays) : delays[k] >= (4 ^ k) * 5000
  /\ \A j, k \in 1..Len(delays) : j < k => delays[j] < delays[k]

\* a further call follows only a quota error before the last attempt; any
\* other error, and a quota error at the last attempt, ends the call of
\* retryWithBackoff: the batch is logged as failed and no call follows
RetryStep ==
  /\ attempt' > attempt =>
       /\ attempt' = attempt + 1
       /\ caught' = "quota"
       /\ attempt < maxRetries - 1
       /\ batchesDone' = batchesDone
  /\ (agentPc = "batch" /\ attempt' <= attempt) =>
       /\ batchesDone' = batchesDone + 1
       /\ attempt' = 0
       /\ batchLog'[batchesDone'].failed <=> caught' # "none"
       /\ caught' = "quota" => attempt = maxRetries - 1

\* C24: retryWithBackoff calls the request at most maxRetries (3) times and
\* ends when the request does; it calls again only after a quota error, after
\* a wait longer than every wait before; any other error, and a quota error
\* at the last attempt, goes to the caller with no further call.
RetryWithBackoffIsBounded ==
  /\ []RetryBounds
  /\ [][RetryStep]_vars
  /\ \A n \in 0..(MaxBatches - 1) :
       (agentPc = "batch" /\ batchesDone = n) ~> (batchesDone > n)

\* the third call of a batch ended with a quota error after two waits and the
\* batch was given up, while an earlier batch had been answered
QuotaErrorOnLastAttempt ==
  /\ batchesDone >= 2
  /\ batchLog[batchesDone].failed
  /\ ~batchLog[1].failed
  /\ caught = "quota"

----------------------------------------------------------------------------
(* Properties of the batches of the advisory pass *)

\* the anchors of the batches gone through, in the order they were sent
RECURSIVE sentIds(_)
sentIds(log) == IF log = <<>> THEN <<>> ELSE Head(log).ids \o sentIds(Tail(log))

\* C25: the advisory pass sends every anchor in exactly one batch of at most
\* 15 anchors, each batch with the whole proof pool, one batch after another:
\* the batches gone through are consecutive slices of the anchors, the batch
\* whose request is under way starts where the finished ones end, and at the
\* return the batches together are the anchors, each once.
BatchesOneAfterAnother ==
  /\ \A k \in 1..batchesDone :
       /\ Len(batchLog[k].ids) \in 1..BATCH_SIZE
       /\ batchLog[k].pool = batchLog[k].ids \o proofs
  /\ isPrefix(sentIds(batchLog), agentAnchors)
  /\ agentPc = "batch" =>
       /\ agentI = Len(sentIds(batchLog))
       /\ agentI < Len(agentAnchors)
       /\ batchesDone = agentI \div BATCH_SIZE
  /\ (agentPc = "done" /\ agentAnchors # <<>>) => sentIds(batchLog) = agentAnchors

\* the request of the third batch is under way, at its second attempt, after
\* the first batch failed and the second was answered
ThirdBatchAfterTwoFinished ==
  /\ agentPc = "batch"
  /\ batchesDone = 2
  /\ batchLog[1].failed
  /\ ~batchLog[2].failed
  /\ attempt = 1

----------------------------------------------------------------------------
(* Properties of the matched list: proofs *)

\* C26: across the advisory pass and the fallback pass together, every proof
\* is in at most one pair of the matched list.
EveryProofInOnePair ==
  \A i, j \in 1..Len(matched) :
    i # j => matched[i].receipt.id # matched[j].receipt.id

----------------------------------------------------------------------------
(* Properties of the result of runReconciliationAgent *)

\* the bankIds of the result's matched list
resultBankIds == { agentResult.matched[k].bankId : k \in 1..Len(agentResult.matched) }

\* how often an id is in a list of ids
occurrences(ids, id) == Cardinality({ k \in 1..Len(ids) : ids[k] = id })

\* C27: in every result of runReconciliationAgent unmatchedBankTransactions
\* lists each anchor id at most once and exactly the anchors without an entry
\* in matched, so that with the bankIds of matched every anchor is covered
\* exactly once.
UnmatchedListsEachAnchorOnce ==
  (agentPc = "done" /\ agentAnchors # <<>>) =>
    \A k \in 1..Len(agentAnchors) :
      occurrences(agentResult.unmatchedBankTransactions, agentAnchors[k])
        = IF agentAnchors[k] \in resultBankIds THEN 0 ELSE 1

----------------------------------------------------------------------------
(* The store after a run *)

\* C28: after any addTravelLogs run the store holds no two travel records
\* that duplicate each other, also when the two arrived in one batch.
NoTwoDuplicatesAfterRun ==
  pc = "idle" =>
    \A a, b \in Records : a.id # b.id => ~duplicates(a, b)

\* C29: no hotel record verifies two flights: after Verify Hotels no two
\* flights have a linked_hotel_id that names the same hotel.
NoHotelVerifiesTwoFlights ==
  pc \in {"verified", "idle"} =>
    \A f, g \in Records :
      (isFlight(f) /\ isFlight(g) /\ f.id # g.id /\ f.linked_hotel_id # 0)
        => f.linked_hotel_id # g.linked_hotel_id

====
